---- MODULE Spec2Model ----
(***************************************************************************)
(* A model of c3's per-pane streaming pipeline: the RingBuffer, the        *)
(* PTYManager (IOBridge) with its capture reader and its input writer, the *)
(* PaneMonitor, the session supervisor, the Hub and its Clients            *)
(* (Subscribers), and the SessionManager with the Sessions of one process. *)
(***************************************************************************)
EXTENDS Integers, Sequences, FiniteSets, TLC

(***************************************************************************)
(* Bounds of the model.                                                    *)
(***************************************************************************)
MaxCap == 3        \* ring capacities 1..MaxCap (SpecRing)
MaxAppend == 4     \* longest chunk handed to RingBuffer.Write (SpecRing)
MaxWritePos == 5   \* total bytes appended (SpecRing)
MaxDst == 3        \* longest destination slice handed to ReadFrom (SpecRing)

Bytes == {1, 2}

Min(a, b) == IF a < b THEN a ELSE b
Max(a, b) == IF a > b THEN a ELSE b

\* All sequences over S of length 0..n.
SeqsUpTo(S, n) == UNION {[1..k -> S] : k \in 0..n}

(***************************************************************************)
(* RingBuffer (src/ringbuffer.go).  A ring is a record                     *)
(*   [buf: 0..size-1 -> byte, size, writePos].                             *)
(***************************************************************************)
NewRingBuffer(sz) == [buf |-> [i \in 0..(sz - 1) |-> 0], size |-> sz, writePos |-> 0]

\* copy(rb.buf[idx:], data): the bytes of data that fit from idx to the end
\* of the storage.
CopyIn(b, idx, data, n) ==
    [i \in DOMAIN b |-> IF i >= idx /\ i < idx + n THEN data[i - idx + 1] ELSE b[i]]

\* A plausible slip: the loop is dropped, so one copy is all Write does and a
\* chunk that reaches past the end of the storage is cut short.
WriteNoWrap(rb, data) ==
    IF Len(data) = 0 THEN rb
    ELSE LET idx == rb.writePos % rb.size
             n   == Min(rb.size - idx, Len(data))
         IN  [rb EXCEPT !.buf = CopyIn(rb.buf, idx, data, n), !.writePos = @ + n]

RECURSIVE Write(_, _)
Write(rb, data) ==
    IF Len(data) = 0 THEN rb
    ELSE LET idx == rb.writePos % rb.size
             n   == Min(rb.size - idx, Len(data))
         IN  Write([rb EXCEPT !.buf = CopyIn(rb.buf, idx, data, n), !.writePos = @ + n],
                   SubSeq(data, n + 1, Len(data)))

WritePos(rb) == rb.writePos

\* A plausible slip: the retained window is taken one byte too long.
OldestOffByOne(rb) ==
    IF rb.writePos <= rb.size + 1 THEN 0 ELSE rb.writePos - rb.size - 1

oldestOffset(rb) ==
    IF rb.writePos <= rb.size THEN 0 ELSE rb.writePos - rb.size

\* The copy loop shared by ReadFrom, Tail and Snapshot: `want` bytes from
\* stream offset pos on, in at most two pieces.
RECURSIVE CopyOut(_, _, _)
CopyOut(rb, pos, want) ==
    IF want <= 0 THEN <<>>
    ELSE LET idx == pos % rb.size
             end == Min(idx + want, rb.size)
             n   == end - idx
         IN  [i \in 1..n |-> rb.buf[idx + i - 1]] \o CopyOut(rb, pos + n, want - n)

\* A plausible slip: the copy is done in one piece and stops at the end of
\* the storage.
ReadFromOnePiece(rb, offset, dstLen) ==
    LET oldest == oldestOffset(rb) IN
    IF offset < oldest
    THEN [n |-> 0, next |-> oldest, err |-> "overwritten", data |-> <<>>]
    ELSE IF offset >= rb.writePos
    THEN [n |-> 0, next |-> offset, err |-> "nil", data |-> <<>>]
    ELSE LET available == Min(rb.writePos - offset, dstLen)
             idx == offset % rb.size
             n == Min(available, rb.size - idx)
             d == [i \in 1..n |-> rb.buf[idx + i - 1]]
         IN  [n |-> n, next |-> offset + n, err |-> "nil", data |-> d]

\* ReadFrom(offset, dst) with len(dst) = dstLen: [n, next, err, data], data
\* being dst[:n] after the call.
ReadFrom(rb, offset, dstLen) ==
    LET oldest == oldestOffset(rb) IN
    IF offset < oldest
    THEN [n |-> 0, next |-> oldest, err |-> "overwritten", data |-> <<>>]
    ELSE IF offset >= rb.writePos
    THEN [n |-> 0, next |-> offset, err |-> "nil", data |-> <<>>]
    ELSE LET available == Min(rb.writePos - offset, dstLen)
             d == CopyOut(rb, offset, available)
         IN  [n |-> Len(d), next |-> offset + Len(d), err |-> "nil", data |-> d]

\* A plausible slip: the copy starts at the head of the storage instead of
\* at the oldest retained byte.
SnapshotFromHead(rb) ==
    LET oldest == oldestOffset(rb)
        available == rb.writePos - oldest
    IN  IF available = 0 THEN [data |-> <<>>, offset |-> rb.writePos]
        ELSE [data |-> CopyOut(rb, 0, available), offset |-> oldest]

\* A plausible slip: n is not clamped to what the ring retains.
TailNoClamp(rb, n) ==
    IF n = 0 THEN [data |-> <<>>, offset |-> rb.writePos]
    ELSE [data |-> CopyOut(rb, rb.writePos - n, n), offset |-> rb.writePos - n]

\* RingBuffer.Tail(n): [data, offset], the last n retained bytes (fewer when
\* fewer are retained) and the offset of the first of them.  (Tail itself
\* names the operator of Sequences.)
RbTail(rb, n) ==
    LET oldest == oldestOffset(rb)
        available == rb.writePos - oldest
        m == IF n > available THEN available ELSE n
    IN  IF m = 0 THEN [data |-> <<>>, offset |-> rb.writePos]
        ELSE [data |-> CopyOut(rb, rb.writePos - m, m), offset |-> rb.writePos - m]

\* Snapshot: [data, offset], the retained window in write order.
Snapshot(rb) ==
    LET oldest == oldestOffset(rb)
        available == rb.writePos - oldest
    IN  IF available = 0 THEN [data |-> <<>>, offset |-> rb.writePos]
        ELSE [data |-> CopyOut(rb, oldest, available), offset |-> oldest]

(***************************************************************************)
(* Frames on a Client's send queue and on its WebSocket connection.  The   *)
(* JSON/base64 encoding of OutputMsg is injective and is decoded again by  *)
(* the browser, so a frame is modelled by the fields it carries.           *)
(***************************************************************************)
OutputFrame(d) ==
    [type |-> "output", data |-> d, paneState |-> "", epoch |-> 0, message |-> ""]
StatusFrame(st, e) ==
    [type |-> "status", data |-> <<>>, paneState |-> st, epoch |-> e, message |-> ""]
ErrorFrame(m) ==
    [type |-> "error", data |-> <<>>, paneState |-> "", epoch |-> 0, message |-> m]

ClientIds == {"c1", "c2"}
TTYs == {"/dev/pts/1", "/dev/pts/2"}

VARIABLES
    ring,     \* the Session's RingBuffer
    stream,   \* history: every byte ever handed to Write, in order
    last,     \* the last RingBuffer call and what it returned (SpecRing)
    pane,     \* the tty of the pane tmux holds under the target, or "none"
    paneCount,\* how many panes were created under the target so far
    produced, \* how many bytes the panes have printed so far
    pipeTo,   \* the attachment whose FIFO tmux pipe-pane feeds, 0 for none
    mon,      \* PaneMonitor: [state, lastTTY, run], run while Run has not returned
    events,   \* PaneMonitor.eventsCh
    sup,      \* the supervisor goroutine of createLocked: [pc, tty, e0, acted],
              \* e0 the Epoch found on entry to the Open in progress, acted the
              \* State of the last event it took from monitor.Events()
    pty,      \* PTYManager: [epoch, stopCh, fifoPath, fifoFile, ptyFile]; stopCh is
              \* 0 (nil) or the number of the attachment it was made for,
              \* made counts the stop channels made so far, and ptyFile is
              \* "nil", the tty it is open on, or "closed"
    stopped,  \* the attachments whose stopCh has been closed
    rd,       \* per attachment, its fifoReadGoroutine/readLoop
    attaches, \* history: per successful Open, [before, at]: the Epoch on entry
              \* and the Epoch when its goroutines were started
    hub,      \* Hub.clients
    cl,       \* per Client: readPump position, sendCh, dropped, conn, writePump
    recv,     \* history: per Client, the frames written to its connection
    lost,     \* history: per Client, the output chunks Broadcast dropped for it
    gone,     \* history: at the last destruction of the pane, the Epoch in force
              \* and the Clients registered
    writeCh,  \* PTYManager.writeCh: the input messages waiting, each [from, k]:
              \* the k-th frame its sender sent
    resizeCh, \* PTYManager.resizeCh
    wl,       \* per attachment, its writeLoop: [pc, msg]
    keys,     \* history: the messages tmux send-keys delivered to the pane
    typed,    \* history: per Client, [input, resize]: how many frames of each
              \* type the browser has sent after its hello
    winsize,  \* the pane's window size: 0 as tmux made it, else what an
              \* ioctl TIOCSWINSZ of resizeLoop set
    sm,       \* SessionManager: [mu, sessions]: mu is 0 or the caller of Get
              \* holding it, sessions maps a target to 0 (no entry) or to the
              \* number of its Session
    made,     \* history: per run of createLocked, the target it was run for;
              \* Session number k is the one made by the k-th run
    calls,    \* per caller of Get: [pc, target, ret]
    fsFifo,   \* the file system at FifoPath: [ino, next]: the inode the path
              \* names (0: no such file) and the inodes made so far
    att,      \* per target, the capture of its Session's PTYManager:
              \* [pc, fifoPath, cat, reader]: cat is the inode the pane's
              \* pipe-pane child writes, reader the inode its reader reads
    captured, \* history: per target, the panes whose output was appended to
              \* the ring of its Session
    store,    \* the files of cfg.UploadDir: a set of [name, data]
    uploads,  \* history: per upload request handled, [data, file, code, path,
              \* hash]: what was sent and what the handler answered
    by,       \* history: per byte the pane printed, the attachment whose reader
              \* read it; Open makes the attachment's stop channel and
              \* increments the Epoch together, so attachment a has Epoch a
    cancelled, \* the Sessions whose cancel() has been called (ctx.Done() is
              \* closed); a Session is named by its number in made, and the
              \* pipeline variables are those of Session 1
    ca,       \* the call of CloseAll: [pc, todo, cur], todo the Sessions the
              \* range loop has yet to visit, cur the one it is closing
    skipped   \* history: per client, the frames its read loop skipped, in
              \* order: [kind, k], k the number of the input frame or 0

NoCall == [op |-> "none", offset |-> 0, dstLen |-> 0, before |-> 0, len |-> 0,
           n |-> 0, next |-> 0, err |-> "nil", data |-> <<>>]

ringVars == <<ring, stream, last>>
envVars  == <<pane, paneCount, produced>>
monVars  == <<mon, events>>
ptyVars  == <<pty, stopped, pipeTo, attaches>>
hubVars  == <<hub, cl, recv, lost>>
inVars   == <<writeCh, resizeCh, wl, keys, typed, winsize>>
upVars   == <<store, uploads>>
closeVars == <<cancelled, ca>>
sessVars == <<sm, made, calls, fsFifo, att, captured, upVars, by, closeVars, skipped>>
vars == <<ring, stream, last, pane, paneCount, produced, pipeTo, mon, events,
          sup, pty, stopped, rd, attaches, hub, cl, recv, lost, gone,
          writeCh, resizeCh, wl, keys, typed, winsize,
          sm, made, calls, fsFifo, att, captured, store, uploads, by,
          cancelled, ca, skipped>>

(***************************************************************************)
(* Bounds and program constants of the pipeline.                           *)
(***************************************************************************)
MaxPanes == 2          \* panes created under the target
MaxOut == 2            \* bytes the panes print
MaxChunk == 1          \* longest chunk one Read of the FIFO returns
ClientQueueSize == 1   \* cfg.ClientQueueSize: capacity of Client.sendCh
RingBufferSize == 2    \* cfg.RingBufferSize: capacity of the Session's ring
DropThreshold == 10    \* Hub.Broadcast: c.dropped >= 10
EventsCap == 2         \* NewPaneMonitor: make(chan PaneEvent, 8), scaled so that
                       \* MaxPanes panes can fill the channel
chunkSize == 1         \* Client.replay: const chunkSize (64 KiB there)
WriteChCap == 64       \* NewPTYManager: make(chan []byte, 64)
ResizeChCap == 8       \* NewPTYManager: make(chan [2]uint16, 8)
MaxInput == 2          \* input frames one browser sends
MaxResize == 2         \* resize frames one browser sends
MaxCallers == 3        \* concurrent callers of SessionManager.Get
MaxInodes == 3         \* files made at FifoPath
MaxRoom == 1           \* room left in writeCh at the start of SpecFull
MaxSkip == 1           \* frames of LiveSkipped a client sends
MaxUploads == 3        \* upload requests handled

Attachments == 1..MaxPanes

NoReader == [pc |-> "none", data |-> <<>>, seen |-> <<>>, regs |-> {}]

NoMsg == [from |-> "", k |-> 0]

Targets == {"6:0.0", "7:0.0"}
Callers == 1..MaxCallers
NoGet == [pc |-> "idle", target |-> "", ret |-> 0]
\* cat and reader are 0 (none), Opening (started, its open of the path not
\* yet done) or the inode opened.
Opening == -1
NoCapture == [pc |-> "closed", fifoPath |-> "", cat |-> 0, reader |-> 0]
NewSessionManager == [mu |-> 0, sessions |-> [t \in Targets |-> 0]]
NoWriter == [pc |-> "none", msg |-> NoMsg]
NoCloseAll == [pc |-> "idle", todo |-> {}, cur |-> 0]

\* first is history: "" until readPump has parsed the first frame, then
\* "hello" or what else the frame was.
NewClient == [pc |-> "hello", sendCh |-> <<>>, chClosed |-> FALSE, dropped |-> 0,
              conn |-> "open", wp |-> "run", evict |-> FALSE, first |-> ""]

\* A Session as createLocked makes it: nothing attached, the monitor in
\* PaneStateMissing, no event queued, no client registered.
InitSessionWith(queued) ==
    /\ pane = "none" /\ paneCount = 0 /\ produced = 0 /\ pipeTo = 0
    /\ mon = [state |-> "missing", lastTTY |-> "", run |-> TRUE]
    /\ events = <<>>
    /\ sup = [pc |-> "idle", tty |-> "", e0 |-> 0, acted |-> "missing"]
    /\ pty = [epoch |-> 0, stopCh |-> 0, made |-> 0, fifoPath |-> "", fifoFile |-> 0,
             ptyFile |-> "nil"]
    /\ stopped = {}
    /\ attaches = <<>>
    /\ rd = [a \in Attachments |-> NoReader]
    /\ hub = {}
    /\ cl = [c \in ClientIds |-> NewClient]
    /\ recv = [c \in ClientIds |-> <<>>]
    /\ lost = [c \in ClientIds |-> {}]
    /\ gone = [epoch |-> 0, regs |-> {}]
    /\ writeCh = queued /\ resizeCh = <<>>
    /\ wl = [a \in Attachments |-> NoWriter]
    /\ keys = <<>>
    /\ typed = [c \in ClientIds |-> [input |-> 0, resize |-> 0]]
    /\ winsize = 0
    /\ calls = [g \in Callers |-> NoGet]
    /\ fsFifo = [ino |-> 0, next |-> 0]
    /\ att = [t \in Targets |-> NoCapture]
    /\ captured = [t \in Targets |-> {}]
    /\ store = {}
    /\ uploads = <<>>
    /\ by = <<>>
    /\ cancelled = {}
    /\ ca = NoCloseAll
    /\ skipped = [c \in ClientIds |-> <<>>]

\* The Session as createLocked makes it: writeCh is empty.
InitSession == InitSessionWith(<<>>)

\* The state after NewSessionManager and one Get("6:0.0"), as main makes it.
InitPipe ==
    /\ InitSession
    /\ sm = [NewSessionManager EXCEPT !.sessions["6:0.0"] = 1]
    /\ made = <<"6:0.0">>

(***************************************************************************)
(* The environment: tmux creates and destroys the pane named by the        *)
(* target.  A new pane gets a tty the kernel has free, which a tty whose    *)
(* slave the PTYManager still holds open is not.  Destroying the pane ends *)
(* the pipe-pane child feeding the FIFO.                                   *)
(***************************************************************************)
PaneCreate(t) ==
    /\ pane = "none"
    /\ paneCount < MaxPanes
    /\ pty.ptyFile # t
    /\ pane' = t
    /\ paneCount' = paneCount + 1
    /\ UNCHANGED <<inVars, gone, sessVars, ringVars, produced, monVars, sup, ptyVars, rd, hubVars>>

PaneDestroy ==
    /\ pane # "none"
    /\ pane' = "none"
    /\ pipeTo' = 0
    /\ gone' = [epoch |-> pty.epoch, regs |-> hub]
    /\ UNCHANGED <<sessVars, inVars, ringVars, paneCount, produced, monVars, sup, pty, stopped,
                   attaches, rd, hubVars>>

(***************************************************************************)
(* PaneMonitor (src/tmux.go).                                              *)
(***************************************************************************)
PaneEvent(st, tty, new) == [state |-> st, tty |-> tty, newTTY |-> new]

\* emit: a non-blocking send; a full channel drops the event.
emit(ch, ev) == IF Len(ch) < EventsCap THEN Append(ch, ev) ELSE ch

\* What `tmux display-message -p -t target '#{pane_tty}'` answers: fail when
\* it exits non-zero, else out, the text it printed, as a sequence of pieces
\* of which those of Space are white space.
Space == {" ", "\n"}

\* Values of pane_tty that are no device path: white space only (an empty
\* value), a word, a path without its /dev/ prefix.
OddTTYs == {" ", "not a tty", "pts/1"}

\* The answer for the pane as it is: no such pane, or its pane_tty and a
\* newline.
TmuxSays == IF pane = "none" THEN [fail |-> TRUE, out |-> <<>>]
            ELSE [fail |-> FALSE, out |-> <<pane, "\n">>]

\* strings.TrimSpace: the text without its leading and trailing white space.
TrimSpace(s) ==
    LET ink == {i \in 1..Len(s) : s[i] \notin Space}
    IN  IF ink = {} THEN <<>>
        ELSE SubSeq(s, CHOOSE i \in ink : \A j \in ink : i <= j,
                       CHOOSE i \in ink : \A j \in ink : i >= j)

\* The string a trimmed text spells; the answers drawn here have one piece
\* between their white space.
Text(t) == IF t = <<>> THEN "" ELSE t[1]

\* strings.HasPrefix(tty, "/dev/"), over the strings that occur here.
HasPrefixDev(tty) == tty \in {"/dev/pts/1", "/dev/pts/2"}

\* A plausible slip: any non-empty value is taken for a device path.
ParsePaneTTYNoPrefixCheck(res) ==
    IF res.fail THEN [tty |-> "", err |-> TRUE]
    ELSE LET tty == Text(TrimSpace(res.out))
         IN  IF tty = "" THEN [tty |-> "", err |-> TRUE]
             ELSE [tty |-> tty, err |-> FALSE]

\* ResolvePaneTTY, from the answer of tmux on.
ParsePaneTTY(res) ==
    IF res.fail THEN [tty |-> "", err |-> TRUE]
    ELSE LET tty == Text(TrimSpace(res.out))
         IN  IF tty = "" THEN [tty |-> "", err |-> TRUE]
             ELSE IF ~HasPrefixDev(tty) THEN [tty |-> "", err |-> TRUE]
             ELSE [tty |-> tty, err |-> FALSE]

\* ResolvePaneTTY: the pane's tty, or an error when tmux knows no such pane.
ResolvePaneTTY == ParsePaneTTY(TmuxSays)

\* A plausible slip: a pane that comes back is compared with the tty known
\* before it went, and reported only when the tty differs.
checkComparesOnReturn(r) ==
    IF r.err
    THEN IF mon.state # "missing"
         THEN /\ mon' = [mon EXCEPT !.state = "missing"]
              /\ events' = emit(events, PaneEvent("missing", "", FALSE))
         ELSE UNCHANGED <<mon, events>>
    ELSE IF r.tty # mon.lastTTY
         THEN /\ mon' = [mon EXCEPT !.state = "connected", !.lastTTY = r.tty]
              /\ events' = emit(events, PaneEvent("connected", r.tty, TRUE))
         ELSE /\ mon' = [mon EXCEPT !.state = "connected"]
              /\ UNCHANGED events

\* A plausible slip: every failed poll reports the pane missing.
checkEmitsEveryFailure(r) ==
    IF r.err
    THEN /\ mon' = [mon EXCEPT !.state = "missing"]
         /\ events' = emit(events, PaneEvent("missing", "", FALSE))
    ELSE IF mon.state = "missing"
         THEN /\ mon' = [mon EXCEPT !.state = "connected", !.lastTTY = r.tty]
              /\ events' = emit(events, PaneEvent("connected", r.tty, TRUE))
         ELSE IF r.tty # mon.lastTTY
              THEN /\ mon' = [mon EXCEPT !.lastTTY = r.tty]
                   /\ events' = emit(events, PaneEvent("connected", r.tty, TRUE))
              ELSE UNCHANGED <<mon, events>>

\* A plausible slip: a tty that changes while the pane stays is recorded
\* but not reported.
checkSilentTTYChange(r) ==
    IF r.err
    THEN IF mon.state # "missing"
         THEN /\ mon' = [mon EXCEPT !.state = "missing"]
              /\ events' = emit(events, PaneEvent("missing", "", FALSE))
         ELSE UNCHANGED <<mon, events>>
    ELSE IF mon.state = "missing"
         THEN /\ mon' = [mon EXCEPT !.state = "connected", !.lastTTY = r.tty]
              /\ events' = emit(events, PaneEvent("connected", r.tty, TRUE))
         ELSE /\ mon' = [mon EXCEPT !.lastTTY = r.tty]
              /\ UNCHANGED events

check(r) ==
    IF r.err
    THEN IF mon.state # "missing"
         THEN /\ mon' = [mon EXCEPT !.state = "missing"]
              /\ events' = emit(events, PaneEvent("missing", "", FALSE))
         ELSE UNCHANGED <<mon, events>>
    ELSE IF mon.state = "missing"
         THEN /\ mon' = [mon EXCEPT !.state = "connected", !.lastTTY = r.tty]
              /\ events' = emit(events, PaneEvent("connected", r.tty, TRUE))
         ELSE IF r.tty # mon.lastTTY
              THEN /\ mon' = [mon EXCEPT !.lastTTY = r.tty]
                   /\ events' = emit(events, PaneEvent("connected", r.tty, TRUE))
              ELSE UNCHANGED <<mon, events>>

\* One tick of PaneMonitor.Run.
MonitorCheck ==
    /\ mon.run
    /\ check(ResolvePaneTTY)
    /\ UNCHANGED <<inVars, gone, sessVars, ringVars, envVars, sup, ptyVars, rd, hubVars>>

(***************************************************************************)
(* PTYManager (src/pty.go).                                                *)
(***************************************************************************)
Epoch == pty.epoch

\* closeLocked: close stopCh, stop pipe-pane, close the FIFO, remove it, close
\* the pty.  It returns without waiting for the attachment's goroutines.
closeLocked ==
    /\ stopped' = IF pty.stopCh # 0 THEN stopped \cup {pty.stopCh} ELSE stopped
    /\ pipeTo' = 0
    /\ pty' = [pty EXCEPT !.stopCh = 0, !.fifoFile = 0, !.fifoPath = "", !.ptyFile = "nil"]
    /\ UNCHANGED attaches

FifoPath == "c3-pipe-pid"

\* A plausible slip: Open makes the stop channel but leaves the Epoch alone.
OpenBeginNoIncrement ==
    /\ sup.pc = "open"
    /\ IF pane = sup.tty
       THEN /\ pty' = [pty EXCEPT !.ptyFile = sup.tty, !.fifoPath = FifoPath,
                                  !.stopCh = pty.made + 1, !.made = @ + 1]
            /\ sup' = [sup EXCEPT !.pc = "pipe", !.e0 = Epoch]
       ELSE /\ sup' = [sup EXCEPT !.pc = "status", !.e0 = Epoch]
            /\ UNCHANGED pty
    /\ UNCHANGED <<inVars, gone, sessVars, ringVars, envVars, monVars, stopped, pipeTo, attaches, rd, hubVars>>

\* A plausible slip: Open starts the attachment on an empty ring.
OpenBeginFreshRing ==
    /\ sup.pc = "open"
    /\ IF pane = sup.tty
       THEN /\ pty' = [pty EXCEPT !.ptyFile = sup.tty, !.fifoPath = FifoPath,
                                  !.epoch = @ + 1,
                                  !.stopCh = pty.made + 1, !.made = @ + 1]
            /\ sup' = [sup EXCEPT !.pc = "pipe", !.e0 = Epoch]
            /\ ring' = NewRingBuffer(RingBufferSize)
       ELSE /\ sup' = [sup EXCEPT !.pc = "status", !.e0 = Epoch]
            /\ UNCHANGED <<pty, ring>>
    /\ UNCHANGED <<inVars, gone, sessVars, stream, last, envVars, monVars, stopped, pipeTo, attaches, rd, hubVars>>

\* Open, up to the log line: open the pty slave (it exists only while the
\* pane holds that tty), make the FIFO, increment the Epoch, make stopCh.
\* p.mu stays held until OpenEnd.
OpenBegin ==
    /\ sup.pc = "open"
    /\ IF pane = sup.tty
       THEN /\ pty' = [pty EXCEPT !.ptyFile = sup.tty, !.fifoPath = FifoPath,
                                  !.epoch = @ + 1,
                                  !.stopCh = pty.made + 1, !.made = @ + 1]
            /\ sup' = [sup EXCEPT !.pc = "pipe", !.e0 = Epoch]
       ELSE /\ sup' = [sup EXCEPT !.pc = "status", !.e0 = Epoch]
            /\ UNCHANGED pty
    /\ UNCHANGED <<inVars, gone, sessVars, ringVars, envVars, monVars, stopped, pipeTo, attaches, rd, hubVars>>

\* Open, the rest: tmux pipe-pane (it fails when the target names no pane),
\* then the goroutines of the attachment are started.
OpenEnd ==
    /\ sup.pc = "pipe"
    /\ IF pane # "none"
       THEN /\ pipeTo' = pty.stopCh
            /\ rd' = [rd EXCEPT ![pty.stopCh] = [NoReader EXCEPT !.pc = "open"]]
            /\ wl' = [wl EXCEPT ![pty.stopCh] = [NoWriter EXCEPT !.pc = "idle"]]
            /\ attaches' = Append(attaches, [before |-> sup.e0, at |-> Epoch])
            /\ UNCHANGED pty
       ELSE /\ pty' = [pty EXCEPT !.ptyFile = "closed"]
            /\ UNCHANGED <<pipeTo, rd, wl, attaches>>
    /\ sup' = [sup EXCEPT !.pc = "status"]
    /\ UNCHANGED <<writeCh, resizeCh, keys, typed, winsize, gone, sessVars, ringVars, envVars, monVars, stopped, hubVars>>

\* Open returning "mkfifo: ..." while the pane holds the tty: the pty slave
\* was opened and stored in p.ptyFile, unix.Mkfifo fails (the environment's
\* doing: the path exists again, or the temporary directory refuses), f is
\* closed; the Epoch and stopCh are left alone.
OpenMkfifoFails ==
    /\ sup.pc = "open"
    /\ pane = sup.tty
    /\ pty' = [pty EXCEPT !.ptyFile = "closed"]
    /\ sup' = [sup EXCEPT !.pc = "status", !.e0 = Epoch]
    /\ UNCHANGED <<inVars, gone, sessVars, ringVars, envVars, monVars, stopped, pipeTo, attaches, rd, hubVars>>

\* p.mu is held from OpenBegin to OpenEnd.
ptyLocked == sup.pc = "pipe"

(***************************************************************************)
(* The input path of PTYManager: WriteInput, Resize, and the writeLoop and *)
(* resizeLoop of attachment a.  writeCh and resizeCh belong to the         *)
(* PTYManager, so every attachment's loops receive from the same two.      *)
(***************************************************************************)
\* A plausible slip: a full channel gives up its oldest message.
WriteInputDropOldest(ch, m) ==
    IF Len(ch) < WriteChCap THEN Append(ch, m) ELSE Append(Tail(ch), m)

\* WriteInput: a non-blocking send; a full channel drops the message.
WriteInput(ch, m) == IF Len(ch) < WriteChCap THEN Append(ch, m) ELSE ch

\* Resize: a non-blocking send of the dimensions.
Resize(ch, dims) == IF Len(ch) < ResizeChCap THEN Append(ch, dims) ELSE ch

\* The select of writeLoop receives from writeCh.  Go's select picks among
\* the ready cases at random, so a loop whose stop is closed may still take
\* a message.
WriteLoopTake(a) ==
    /\ wl[a].pc = "idle"
    /\ writeCh # <<>>
    /\ wl' = [wl EXCEPT ![a] = [pc |-> "send", msg |-> Head(writeCh)]]
    /\ writeCh' = Tail(writeCh)
    /\ UNCHANGED <<resizeCh, keys, typed, winsize, gone, sessVars, ringVars, envVars, monVars, sup,
                   ptyVars, rd, hubVars>>

\* The target is read under p.mu, then tmux send-keys -t target -l -- data
\* runs: the pane receives the bytes, or there is no pane and the command
\* fails, which ends the loop when stop is closed and is logged otherwise.
WriteLoopSend(a) ==
    /\ wl[a].pc = "send"
    /\ ~ptyLocked
    /\ IF pane # "none"
       THEN /\ keys' = Append(keys, wl[a].msg)
            /\ wl' = [wl EXCEPT ![a] = [NoWriter EXCEPT !.pc = "idle"]]
       ELSE /\ UNCHANGED keys
            /\ wl' = [wl EXCEPT ![a] = [NoWriter EXCEPT
                          !.pc = IF a \in stopped THEN "done" ELSE "idle"]]
    /\ UNCHANGED <<writeCh, resizeCh, typed, winsize, gone, sessVars, ringVars, envVars, monVars, sup,
                   ptyVars, rd, hubVars>>

\* case <-stop: return
WriteLoopExit(a) ==
    /\ wl[a].pc = "idle"
    /\ a \in stopped
    /\ wl' = [wl EXCEPT ![a].pc = "done"]
    /\ UNCHANGED <<writeCh, resizeCh, keys, typed, winsize, gone, sessVars, ringVars, envVars, monVars,
                   sup, ptyVars, rd, hubVars>>

\* resizeLoop receives dimensions and sets them with ioctl TIOCSWINSZ.
\* Nothing calls PTYManager.Resize, so resizeCh stays empty and this step
\* is never enabled.
resizeLoop(a) ==
    /\ wl[a].pc # "none"
    /\ resizeCh # <<>>
    /\ winsize' = Head(resizeCh)
    /\ resizeCh' = Tail(resizeCh)
    /\ UNCHANGED <<writeCh, wl, keys, typed, gone, sessVars, ringVars, envVars, monVars, sup, ptyVars,
                   rd, hubVars>>

(***************************************************************************)
(* fifoReadGoroutine and readLoop of attachment a.                         *)
(***************************************************************************)
\* os.OpenFile(fifoPath, O_RDONLY) returns once pipe-pane's cat holds the
\* write end; the handle is stored under p.mu.
ReaderConnect(a) ==
    /\ rd[a].pc = "open"
    /\ a \notin stopped
    /\ pipeTo = a
    /\ ~ptyLocked
    /\ pty' = [pty EXCEPT !.fifoFile = a]
    /\ rd' = [rd EXCEPT ![a].pc = "read"]
    /\ UNCHANGED <<inVars, gone, sessVars, ringVars, envVars, monVars, sup, stopped, pipeTo, attaches, hubVars>>

\* ReaderConnect in its two parts, for a reader that finds p.mu taken:
\* os.OpenFile has returned,
ReaderOpened(a) ==
    /\ rd[a].pc = "open"
    /\ a \notin stopped
    /\ pipeTo = a
    /\ rd' = [rd EXCEPT ![a].pc = "opened"]
    /\ UNCHANGED <<inVars, gone, sessVars, ringVars, envVars, monVars, sup, ptyVars, hubVars>>

\* and p.fifoFile = fifoFile under p.mu, which looks at no stop channel: a
\* Close may have come in between.
ReaderStore(a) ==
    /\ rd[a].pc = "opened"
    /\ ~ptyLocked
    /\ pty' = [pty EXCEPT !.fifoFile = a]
    /\ rd' = [rd EXCEPT ![a].pc = "read"]
    /\ UNCHANGED <<inVars, gone, sessVars, ringVars, envVars, monVars, sup, stopped, pipeTo, attaches, hubVars>>

\* r.Read(buf) returns the next bytes the pane printed.  The pane's k-th
\* byte is k, so a byte's value tells its place in the output.
ReaderRead(a) ==
    /\ rd[a].pc = "read"
    /\ a \notin stopped
    /\ pipeTo = a
    /\ \E n \in 1..MaxChunk :
        /\ produced + n <= MaxOut
        /\ produced' = produced + n
        /\ rd' = [rd EXCEPT ![a].pc = "write",
                            ![a].data = [i \in 1..n |-> produced + i]]
        /\ by' = by \o [i \in 1..n |-> a]
    /\ UNCHANGED <<inVars, gone, sm, made, calls, fsFifo, att, captured, upVars, closeVars,
                   skipped, ringVars, pane, paneCount, monVars, sup, ptyVars, hubVars>>

\* The reader returns: stop is closed (the select, or the failed open or
\* Read after Close), or the FIFO reached end of file because its writer is
\* gone.
ReaderExit(a) ==
    /\ rd[a].pc \in {"open", "read"}
    /\ a \in stopped \/ (rd[a].pc = "read" /\ pipeTo # a)
    /\ rd' = [rd EXCEPT ![a].pc = "done"]
    /\ UNCHANGED <<inVars, gone, sessVars, ringVars, envVars, monVars, sup, ptyVars, hubVars>>

\* A plausible slip: the chunk goes to onOutput without p.ring.Write.
ReaderWriteBroadcastOnly(a) ==
    /\ rd[a].pc = "write"
    /\ rd' = [rd EXCEPT ![a].pc = "bcast", ![a].regs = hub]
    /\ UNCHANGED <<inVars, gone, sessVars, ringVars, envVars, monVars, sup, ptyVars, hubVars>>

\* p.ring.Write(data)
ReaderWrite(a) ==
    /\ rd[a].pc = "write"
    /\ ring' = Write(ring, rd[a].data)
    /\ stream' = stream \o rd[a].data
    /\ rd' = [rd EXCEPT ![a].pc = "bcast", ![a].regs = hub]
    /\ UNCHANGED <<inVars, gone, sessVars, last, envVars, monVars, sup, ptyVars, hubVars>>

(***************************************************************************)
(* Hub (src/unnamed/part_011).                                             *)
(***************************************************************************)
Full(c) == Len(cl[c].sendCh) >= ClientQueueSize

\* A plausible slip: the queue counts as full one frame early.
trySendEarlyFull(q, f) == IF Len(q) + 1 < ClientQueueSize THEN Append(q, f) ELSE q

\* select { case c.sendCh <- raw: default: }
trySend(q, f) == IF Len(q) < ClientQueueSize THEN Append(q, f) ELSE q

\* Some goroutine is inside Broadcast, holding h.mu.RLock.
hubRLocked == \E a \in Attachments : rd[a].pc = "inbcast"

\* Broadcast takes the read lock.  From here on another Broadcast may run
\* beside this one (the reader of a closed attachment may still hold a
\* chunk), so the c.dropped this call increments may be the value found now.
BroadcastBegin(a) ==
    /\ rd[a].pc = "bcast"
    /\ rd' = [rd EXCEPT ![a].pc = "inbcast",
                        ![a].seen = [c \in ClientIds |-> cl[c].dropped]]
    /\ UNCHANGED <<inVars, gone, sessVars, ringVars, envVars, monVars, sup, ptyVars, hubVars>>

\* The loop of Broadcast over h.clients.  c.dropped++ is a plain read and
\* write under the read lock: beside another Broadcast it may write back
\* the count read before the other's increment.
BroadcastLoop(a) ==
    LET f == OutputFrame(rd[a].data) IN
    \E stale \in SUBSET {c \in hub : Full(c) /\ rd[a].seen[c] < cl[c].dropped} :
        /\ cl' = [c \in ClientIds |->
                    IF c \notin hub THEN cl[c]
                    ELSE IF ~Full(c) THEN [cl[c] EXCEPT !.sendCh = trySend(@, f)]
                    ELSE LET d == (IF c \in stale THEN rd[a].seen[c] ELSE cl[c].dropped) + 1
                         IN  [cl[c] EXCEPT !.dropped = d,
                                           !.evict = @ \/ d >= DropThreshold]]
        /\ lost' = [c \in ClientIds |->
                      IF c \in hub /\ Full(c) THEN lost[c] \cup {rd[a].data} ELSE lost[c]]

\* A plausible slip: a blocking send, which waits for room in every queue.
BroadcastEndBlocking(a) ==
    /\ rd[a].pc = "inbcast"
    /\ \A c \in hub : ~Full(c)
    /\ BroadcastLoop(a)
    /\ rd' = [rd EXCEPT ![a].pc = "read", ![a].data = <<>>, ![a].seen = <<>>,
                        ![a].regs = {}]
    /\ UNCHANGED <<inVars, gone, sessVars, ringVars, envVars, monVars, sup, ptyVars, hub, recv>>

BroadcastEnd(a) ==
    /\ rd[a].pc = "inbcast"
    /\ BroadcastLoop(a)
    /\ rd' = [rd EXCEPT ![a].pc = "read", ![a].data = <<>>, ![a].seen = <<>>,
                        ![a].regs = {}]
    /\ UNCHANGED <<inVars, gone, sessVars, ringVars, envVars, monVars, sup, ptyVars, hub, recv>>

\* BroadcastStatus: a non-blocking send of the status frame to every
\* registered client; a full queue loses it, uncounted.
BroadcastStatus(st, e) ==
    /\ cl' = [c \in ClientIds |->
                IF c \in hub THEN [cl[c] EXCEPT !.sendCh = trySend(@, StatusFrame(st, e))]
                ELSE cl[c]]
    /\ UNCHANGED <<hub, recv, lost>>

(***************************************************************************)
(* The supervisor goroutine of SessionManager.createLocked                 *)
(* (src/unnamed/part_009).                                                 *)
(***************************************************************************)
\* case PaneStateConnected with NewTTY: Reattach begins with Close.
SupConnected ==
    /\ sup.pc = "idle"
    /\ events # <<>>
    /\ Head(events).state = "connected" /\ Head(events).newTTY
    /\ events' = Tail(events)
    /\ closeLocked
    /\ sup' = [sup EXCEPT !.pc = "open", !.tty = Head(events).tty,
                         !.acted = "connected"]
    /\ UNCHANGED <<inVars, gone, sessVars, ringVars, envVars, mon, rd, hubVars>>

\* hub.BroadcastStatus("connected", ptyMgr.Epoch()), whether or not Reattach
\* returned an error.
SupStatusConnected ==
    /\ sup.pc = "status"
    /\ BroadcastStatus("connected", Epoch)
    /\ sup' = [sup EXCEPT !.pc = "idle"]
    /\ UNCHANGED <<inVars, gone, sessVars, ringVars, envVars, monVars, ptyVars, rd>>

\* case PaneStateMissing: ptyMgr.Close()
SupMissing ==
    /\ sup.pc = "idle"
    /\ events # <<>>
    /\ Head(events).state = "missing"
    /\ events' = Tail(events)
    /\ closeLocked
    /\ sup' = [sup EXCEPT !.pc = "statusMissing", !.acted = "missing"]
    /\ UNCHANGED <<inVars, gone, sessVars, ringVars, envVars, mon, rd, hubVars>>

\* hub.BroadcastStatus("missing", ptyMgr.Epoch())
SupStatusMissing ==
    /\ sup.pc = "statusMissing"
    /\ BroadcastStatus("missing", Epoch)
    /\ sup' = [sup EXCEPT !.pc = "idle"]
    /\ UNCHANGED <<inVars, gone, sessVars, ringVars, envVars, monVars, ptyVars, rd>>


(***************************************************************************)
(* Client (src/client.go): readPump, replay, writePump, and the browser    *)
(* at the other end of its connection.                                     *)
(***************************************************************************)
\* A plausible slip: the loop is dropped and only the first piece is sent.
replayFramesFirstOnly(data) ==
    IF Len(data) = 0 THEN <<>>
    ELSE <<OutputFrame(SubSeq(data, 1, Min(chunkSize, Len(data))))>>

\* The output frames replay sends for data: pieces of at most chunkSize.
RECURSIVE replayFrames(_)
replayFrames(data) ==
    IF Len(data) = 0 THEN <<>>
    ELSE LET end == Min(chunkSize, Len(data))
         IN  <<OutputFrame(SubSeq(data, 1, end))>>
                 \o replayFrames(SubSeq(data, end + 1, Len(data)))

\* replay: full mode sends the ring's snapshot straight to the connection;
\* any other mode sends nothing.
replay(c, mode) ==
    IF mode = "full"
    THEN recv' = [recv EXCEPT ![c] = @ \o replayFrames(Snapshot(ring).data)]
    ELSE UNCHANGED recv

\* readPump reads a well-formed hello and performs the replay.
ClientHello(c, mode) ==
    /\ cl[c].pc = "hello"
    /\ cl[c].conn = "open"
    /\ replay(c, mode)
    /\ cl' = [cl EXCEPT ![c].pc = "register", ![c].first = "hello"]
    /\ UNCHANGED <<inVars, gone, sessVars, ringVars, envVars, monVars, sup, ptyVars, rd, hub, lost>>

\* A write of the replay fails (the connection broke): the frames before it
\* were sent, replay returns the error and readPump returns without
\* registering; its deferred Unregister finds nothing and CloseNow closes
\* the connection.
ReplayFail(c) ==
    LET frames == replayFrames(Snapshot(ring).data) IN
    /\ cl[c].pc = "hello"
    /\ cl[c].conn = "open"
    /\ \E k \in 0..(Len(frames) - 1) :
           recv' = [recv EXCEPT ![c] = @ \o SubSeq(frames, 1, k)]
    /\ cl' = [cl EXCEPT ![c].pc = "closed", ![c].conn = "closed", ![c].first = "hello"]
    /\ UNCHANGED <<inVars, gone, sessVars, ringVars, envVars, monVars, sup, ptyVars, rd, hub, lost>>

\* The first frames that are not a well-formed hello: ParseClientMessage
\* fails on invalid JSON and on an unknown type; an input or a resize frame
\* parses but is no *HelloMsg.
BadHellos == {"invalid JSON", "unknown type", "input", "resize"}

helloError(kind) ==
    IF kind \in {"input", "resize"} THEN "first message must be hello" ELSE "invalid hello"

\* A plausible slip: the first frame is handled as the read loop handles
\* it, an input frame is injected, and the client goes on to register.
ClientBadHelloLenient(c, kind) ==
    /\ cl[c].pc = "hello"
    /\ cl[c].conn = "open"
    /\ writeCh' = IF kind = "input" THEN WriteInput(writeCh, [from |-> c, k |-> 0])
                  ELSE writeCh
    /\ cl' = [cl EXCEPT ![c].pc = "register", ![c].first = kind]
    /\ UNCHANGED <<resizeCh, wl, keys, typed, winsize, gone, sessVars, ringVars, envVars, monVars, sup,
                   ptyVars, rd, hub, recv, lost>>

\* readPump reads a first frame that is not a well-formed hello: sendError
\* writes an error frame to the connection and readPump returns; its
\* deferred Unregister finds nothing and CloseNow closes the connection.
ClientBadHello(c, kind) ==
    /\ cl[c].pc = "hello"
    /\ cl[c].conn = "open"
    /\ recv' = [recv EXCEPT ![c] = Append(@, ErrorFrame(helloError(kind)))]
    /\ hub' = hub \ {c}
    /\ cl' = [cl EXCEPT ![c].pc = "closed", ![c].conn = "closed", ![c].first = kind]
    /\ UNCHANGED <<inVars, gone, sessVars, ringVars, envVars, monVars, sup, ptyVars, rd, lost>>

\* Hub.Register, under the write lock.
Register(c) ==
    /\ cl[c].pc = "register"
    /\ ~hubRLocked
    /\ hub' = hub \cup {c}
    /\ cl' = [cl EXCEPT ![c].pc = "status"]
    /\ UNCHANGED <<inVars, gone, sessVars, ringVars, envVars, monVars, sup, ptyVars, rd, recv, lost>>

\* sendStatus: always "connected", with the Epoch of the moment.
sendStatus(c) ==
    /\ cl[c].pc = "status"
    /\ cl' = [cl EXCEPT ![c].sendCh = trySend(@, StatusFrame("connected", Epoch)),
                        ![c].pc = "live"]
    /\ UNCHANGED <<inVars, gone, sessVars, ringVars, envVars, monVars, sup, ptyVars, rd, hub, recv, lost>>

\* The read loop reads an input frame: the base64 text decodes and the
\* bytes go to WriteInput, or it does not and the frame is skipped.  The
\* message is named by its sender and its place among the sender's frames.
ClientInput(c) ==
    /\ cl[c].pc = "live"
    /\ cl[c].conn = "open"
    /\ typed[c].input < MaxInput
    /\ typed' = [typed EXCEPT ![c].input = @ + 1]
    /\ \E ok \in BOOLEAN :
           IF ok
           THEN /\ writeCh' = WriteInput(writeCh, [from |-> c, k |-> typed[c].input + 1])
                /\ UNCHANGED skipped
           ELSE /\ skipped' = [skipped EXCEPT
                                 ![c] = Append(@, [kind |-> "invalid base64",
                                                   k |-> typed[c].input + 1])]
                /\ UNCHANGED writeCh
    /\ UNCHANGED <<resizeCh, wl, keys, winsize, gone, sm, made, calls, fsFifo, att, captured,
                   upVars, by, closeVars, ringVars, envVars, monVars, sup, ptyVars, rd, hubVars>>

\* The frames the read loop cannot use: ParseClientMessage fails on invalid
\* JSON and on an unknown type; a hello parses and falls to the default
\* case of the type switch.
LiveSkipped == {"invalid JSON", "unknown type", "hello"}

\* A plausible slip: the read loop returns on a frame it cannot use, as it
\* does on the first frame.
ClientSkipFatal(c, kind) ==
    /\ cl[c].pc = "live"
    /\ cl[c].conn = "open"
    /\ Len(skipped[c]) < MaxSkip
    /\ skipped' = [skipped EXCEPT ![c] = Append(@, [kind |-> kind, k |-> 0])]
    /\ hub' = hub \ {c}
    /\ cl' = [cl EXCEPT ![c].pc = "closed", ![c].conn = "closed",
                        ![c].chClosed = @ \/ c \in hub]
    /\ UNCHANGED <<inVars, gone, sm, made, calls, fsFifo, att, captured, upVars, by, closeVars,
                   ringVars, envVars, monVars, sup, ptyVars, rd, recv, lost>>

\* The read loop reads a frame of LiveSkipped: a warning is logged and the
\* loop goes on to the next frame.
ClientSkip(c, kind) ==
    /\ cl[c].pc = "live"
    /\ cl[c].conn = "open"
    /\ Len(skipped[c]) < MaxSkip
    /\ skipped' = [skipped EXCEPT ![c] = Append(@, [kind |-> kind, k |-> 0])]
    /\ UNCHANGED <<inVars, gone, sm, made, calls, fsFifo, att, captured, upVars, by, closeVars,
                   ringVars, envVars, monVars, sup, ptyVars, rd, hubVars>>

\* A plausible slip: the resize frame is forwarded to PTYManager.Resize.
ClientResizeForward(c) ==
    /\ cl[c].pc = "live"
    /\ cl[c].conn = "open"
    /\ typed[c].resize < MaxResize
    /\ typed' = [typed EXCEPT ![c].resize = @ + 1]
    /\ resizeCh' = Resize(resizeCh, typed[c].resize + 1)
    /\ UNCHANGED <<writeCh, wl, keys, winsize, gone, sessVars, ringVars, envVars, monVars, sup,
                   ptyVars, rd, hubVars>>

\* The read loop reads a resize frame: case *ResizeMsg does nothing.
ClientResize(c) ==
    /\ cl[c].pc = "live"
    /\ cl[c].conn = "open"
    /\ typed[c].resize < MaxResize
    /\ typed' = [typed EXCEPT ![c].resize = @ + 1]
    /\ UNCHANGED <<writeCh, resizeCh, wl, keys, winsize, gone, sessVars, ringVars, envVars, monVars,
                   sup, ptyVars, rd, hubVars>>

\* A plausible slip: readPump returns without its deferred Unregister.
ClientReadErrorNoUnregister(c) ==
    /\ cl[c].pc \in {"hello", "live"}
    /\ cl[c].conn = "closed"
    /\ cl' = [cl EXCEPT ![c].pc = "closed"]
    /\ UNCHANGED <<inVars, gone, sessVars, ringVars, envVars, monVars, sup, ptyVars, rd, hub, recv, lost>>

\* A plausible slip: Unregister closes the queue whether or not it found the
\* client in the map.
ClientReadErrorCloseAlways(c) ==
    /\ cl[c].pc \in {"hello", "live"}
    /\ cl[c].conn = "closed"
    /\ c \in hub => ~hubRLocked
    /\ hub' = hub \ {c}
    /\ cl' = [cl EXCEPT ![c].pc = "closed", ![c].chClosed = TRUE]
    /\ UNCHANGED <<inVars, gone, sessVars, ringVars, envVars, monVars, sup, ptyVars, rd, recv, lost>>

\* conn.Read fails (the connection is closed): readPump returns, and its
\* deferred Hub.Unregister and conn.CloseNow run; Run then cancels ctx.
ClientReadError(c) ==
    /\ cl[c].pc \in {"hello", "live"}
    /\ cl[c].conn = "closed"
    /\ c \in hub => ~hubRLocked
    /\ hub' = hub \ {c}
    /\ cl' = [cl EXCEPT ![c].pc = "closed", ![c].chClosed = @ \/ c \in hub]
    /\ UNCHANGED <<inVars, gone, sessVars, ringVars, envVars, monVars, sup, ptyVars, rd, recv, lost>>

\* writePump takes a frame and writes it to the connection; a failed write
\* ends the pump.
WritePumpSend(c) ==
    /\ cl[c].wp = "run"
    /\ cl[c].pc # "closed"
    /\ cl[c].sendCh # <<>>
    /\ IF cl[c].conn = "open"
       THEN /\ recv' = [recv EXCEPT ![c] = Append(@, Head(cl[c].sendCh))]
            /\ cl' = [cl EXCEPT ![c].sendCh = Tail(@)]
       ELSE /\ cl' = [cl EXCEPT ![c].sendCh = Tail(@), ![c].wp = "exit"]
            /\ UNCHANGED recv
    /\ UNCHANGED <<inVars, gone, sessVars, ringVars, envVars, monVars, sup, ptyVars, rd, hub, lost>>

\* writePump returns on ctx.Done().
WritePumpExit(c) ==
    /\ cl[c].wp = "run"
    /\ cl[c].pc = "closed"
    /\ cl' = [cl EXCEPT ![c].wp = "exit"]
    /\ UNCHANGED <<inVars, gone, sessVars, ringVars, envVars, monVars, sup, ptyVars, rd, hub, recv, lost>>

\* The browser closes its end.
BrowserClose(c) ==
    /\ cl[c].conn = "open"
    /\ cl[c].pc # "closed"
    /\ cl' = [cl EXCEPT ![c].conn = "closed"]
    /\ UNCHANGED <<inVars, gone, sessVars, ringVars, envVars, monVars, sup, ptyVars, rd, hub, recv, lost>>

\* go c.conn.CloseNow(), started by Broadcast for a client at the threshold.
HubCloseNow(c) ==
    /\ cl[c].evict
    /\ cl[c].conn = "open"
    /\ cl' = [cl EXCEPT ![c].conn = "closed"]
    /\ UNCHANGED <<inVars, gone, sessVars, ringVars, envVars, monVars, sup, ptyVars, rd, hub, recv, lost>>

(***************************************************************************)
(* The steps of one Session, and the state after its creation.             *)
(***************************************************************************)
ReaderStep(a) ==
    \/ ReaderConnect(a)
    \/ ReaderRead(a)
    \/ ReaderExit(a)
    \/ ReaderWrite(a)
    \/ BroadcastBegin(a)
    \/ BroadcastEnd(a)

\* Client c connects and is served.
ServeStep(c) ==
    \/ \E mode \in {"full", "tail"} : ClientHello(c, mode)
    \/ Register(c)
    \/ sendStatus(c)
    \/ WritePumpSend(c)

\* Client c's connection ends and its goroutines return.
LeaveStep(c) ==
    \/ BrowserClose(c)
    \/ ReplayFail(c)
    \/ \E kind \in BadHellos : ClientBadHello(c, kind)
    \/ ClientReadError(c)
    \/ WritePumpExit(c)

\* Client c's browser sends frames after its hello.
InputStep(c) ==
    \/ ClientInput(c)
    \/ ClientResize(c)

\* The pane comes and goes on the ttys of T; the monitor, the supervisor and
\* the capture readers run.
SessionStep(T) ==
    \/ \E t \in T : PaneCreate(t)
    \/ PaneDestroy
    \/ MonitorCheck
    \/ SupConnected
    \/ OpenBegin
    \/ OpenEnd
    \/ SupStatusConnected
    \/ SupMissing
    \/ SupStatusMissing
    \/ \E a \in Attachments : ReaderStep(a)

Init ==
    /\ InitPipe
    /\ ring = NewRingBuffer(RingBufferSize)
    /\ stream = <<>>
    /\ last = NoCall

(***************************************************************************)
(* Spec: one Session from its creation on, the pane coming and going on    *)
(* one tty, and one client that connects and is served.                    *)
(***************************************************************************)
Next == SessionStep({"/dev/pts/1"}) \/ ServeStep("c1")

Spec == Init /\ [][Next]_vars

(***************************************************************************)
(* SpecBridge: the Session without clients, the pane coming and going on   *)
(* either tty.                                                             *)
(***************************************************************************)
NextBridge == SessionStep(TTYs)

SpecBridge == Init /\ [][NextBridge]_vars

(***************************************************************************)
(* SpecMonitor: SpecBridge with panes whose pane_tty may also be one of    *)
(* OddTTYs.                                                                *)
(***************************************************************************)
NextMonitor == SessionStep(TTYs \cup OddTTYs)

SpecMonitor == Init /\ [][NextMonitor]_vars

(***************************************************************************)
(* SpecRetry: SpecBridge with an Open that may fail at mkfifo while the    *)
(* pane is there.                                                          *)
(***************************************************************************)
NextRetry ==
    \/ NextBridge
    \/ OpenMkfifoFails

SpecRetry == Init /\ [][NextRetry]_vars

(***************************************************************************)
(* SpecHub: the fan-out.  The pane is created once and stays; the clients  *)
(* of ClientIds connect and stay connected, each draining its queue at its *)
(* own pace.                                                               *)
(***************************************************************************)
HubReaderStep(a) ==
    \/ ReaderConnect(a)
    \/ ReaderRead(a)
    \/ ReaderWrite(a)
    \/ BroadcastBegin(a)
    \/ BroadcastEnd(a)

NextHub ==
    \/ PaneCreate("/dev/pts/1")
    \/ MonitorCheck
    \/ SupConnected
    \/ OpenBegin
    \/ OpenEnd
    \/ SupStatusConnected
    \/ \E a \in Attachments : HubReaderStep(a)
    \/ \E c \in ClientIds : ServeStep(c)

SpecHub == Init /\ [][NextHub]_vars

(***************************************************************************)
(* SpecClient: one client's whole life, from its hello to the return of    *)
(* its two pumps, beside a pane that is created once and stays.            *)
(***************************************************************************)
NextClient ==
    \/ PaneCreate("/dev/pts/1")
    \/ MonitorCheck
    \/ SupConnected
    \/ OpenBegin
    \/ OpenEnd
    \/ SupStatusConnected
    \/ \E a \in Attachments : HubReaderStep(a)
    \/ ServeStep("c1")
    \/ LeaveStep("c1")

SpecClient == Init /\ [][NextClient]_vars

(***************************************************************************)
(* SpecInput: the way from the browsers to the pane.  The pane is created  *)
(* once, stays and prints nothing; one client connects, sends input and   *)
(* resize frames and leaves; the writeLoop of the attachment sends the     *)
(* input to the pane.                                                      *)
(***************************************************************************)
NextInput ==
    \/ PaneCreate("/dev/pts/1")
    \/ MonitorCheck
    \/ SupConnected
    \/ OpenBegin
    \/ OpenEnd
    \/ SupStatusConnected
    \/ \E a \in Attachments : WriteLoopTake(a) \/ WriteLoopSend(a)
    \/ ServeStep("c1")
    \/ InputStep("c1")
    \/ \E kind \in BadHellos : ClientBadHello("c1", kind)
    \/ BrowserClose("c1")
    \/ ClientReadError("c1")
    \/ WritePumpExit("c1")

SpecInput == Init /\ [][NextInput]_vars

(***************************************************************************)
(* SpecFull: a client typing while the pane stays missing, writeCh nearly  *)
(* full or full at the start.  No writeLoop runs before the first attach,  *)
(* so what clients that have come and gone typed is still queued: n        *)
(* messages, of which WriteInput kept at most WriteChCap.                  *)
(***************************************************************************)
RECURSIVE Queued(_)
Queued(n) ==
    IF n = 0 THEN <<>>
    ELSE WriteInput(Queued(n - 1), [from |-> "earlier", k |-> n])

InitFull ==
    /\ \E n \in (WriteChCap - MaxRoom)..(WriteChCap + 1) : InitSessionWith(Queued(n))
    /\ sm = [NewSessionManager EXCEPT !.sessions["6:0.0"] = 1]
    /\ made = <<"6:0.0">>
    /\ ring = NewRingBuffer(RingBufferSize)
    /\ stream = <<>>
    /\ last = NoCall

NextFull ==
    \/ ServeStep("c1")
    \/ InputStep("c1")
    \/ BrowserClose("c1")
    \/ ClientReadError("c1")
    \/ WritePumpExit("c1")

SpecFull == InitFull /\ [][NextFull]_vars

(***************************************************************************)
(* SpecSkip: SpecInput with a browser that also sends frames the read loop *)
(* cannot use.                                                             *)
(***************************************************************************)
NextSkip ==
    \/ NextInput
    \/ \E kind \in LiveSkipped : ClientSkip("c1", kind)

SpecSkip == Init /\ [][NextSkip]_vars

(***************************************************************************)
(* SpecKeys: input while the pane comes and goes.  The clients of          *)
(* ClientIds connect and send input frames; the pane is destroyed and      *)
(* created again, the supervisor closes and reattaches, and the writeLoop  *)
(* of every attachment runs until it returns.                              *)
(***************************************************************************)
WriteLoopStep(a) ==
    \/ WriteLoopTake(a)
    \/ WriteLoopSend(a)
    \/ WriteLoopExit(a)

NextKeys ==
    \/ PaneCreate("/dev/pts/1")
    \/ PaneDestroy
    \/ MonitorCheck
    \/ SupConnected
    \/ OpenBegin
    \/ OpenEnd
    \/ SupStatusConnected
    \/ SupMissing
    \/ SupStatusMissing
    \/ \E a \in Attachments : WriteLoopStep(a)
    \/ \E c \in ClientIds :
           ClientHello(c, "tail") \/ Register(c) \/ sendStatus(c) \/ ClientInput(c)

SpecKeys == Init /\ [][NextKeys]_vars

(***************************************************************************)
(* SpecCount: the clients of ClientIds connect, register and disconnect,   *)
(* each at its own time, while the pane prints and their browsers read     *)
(* nothing.  Every goroutine that can take a step is scheduled in the end: *)
(* a readPump waiting for the hub's lock or seeing its Read fail, and a    *)
(* Broadcast holding the read lock.                                        *)
(***************************************************************************)
\* readPump of client c from its hello to the read loop.
ConnectStep(c) ==
    \/ \E mode \in {"full", "tail"} : ClientHello(c, mode)
    \/ Register(c)
    \/ sendStatus(c)

\* The browser of client c goes away and readPump returns.
DisconnectStep(c) ==
    \/ BrowserClose(c)
    \/ ClientReadError(c)

NextCount ==
    \/ PaneCreate("/dev/pts/1")
    \/ MonitorCheck
    \/ SupConnected
    \/ OpenBegin
    \/ OpenEnd
    \/ SupStatusConnected
    \/ \E a \in Attachments : HubReaderStep(a)
    \/ \E c \in ClientIds : ConnectStep(c) \/ DisconnectStep(c)

FairCount ==
    /\ \A c \in ClientIds :
         /\ WF_vars(Register(c))
         /\ WF_vars(sendStatus(c))
         /\ WF_vars(ClientReadError(c))
    /\ \A a \in Attachments : WF_vars(BroadcastEnd(a))

SpecCount == Init /\ [][NextCount]_vars /\ FairCount

(***************************************************************************)
(* SessionManager.Get (src/unnamed/part_009), called by the handlers of    *)
(* concurrent requests.                                                    *)
(***************************************************************************)
procVars == <<ringVars, envVars, monVars, sup, ptyVars, rd, hubVars, gone, inVars, upVars,
              by, closeVars, skipped>>

\* A plausible slip: Get does not take sm.mu.
GetLockNoMutex(g, t) ==
    /\ calls[g].pc = "idle"
    /\ calls' = [calls EXCEPT ![g] = [pc |-> "locked", target |-> t, ret |-> 0]]
    /\ UNCHANGED <<sm, made, fsFifo, att, captured, procVars>>

\* sm.mu.Lock()
GetLock(g, t) ==
    /\ calls[g].pc = "idle"
    /\ sm.mu = 0
    /\ sm' = [sm EXCEPT !.mu = g]
    /\ calls' = [calls EXCEPT ![g] = [pc |-> "locked", target |-> t, ret |-> 0]]
    /\ UNCHANGED <<made, fsFifo, att, captured, procVars>>

\* if s, ok := sm.sessions[target]; ok { return s }
GetLookup(g) ==
    /\ calls[g].pc = "locked"
    /\ LET s == sm.sessions[calls[g].target] IN
       calls' = [calls EXCEPT ![g].pc = IF s # 0 THEN "unlock" ELSE "create",
                              ![g].ret = s]
    /\ UNCHANGED <<sm, made, fsFifo, att, captured, procVars>>

\* s := sm.createLocked(target); sm.sessions[target] = s.  createLocked
\* makes one ring, hub, PTYManager, monitor and supervisor goroutine.
GetCreate(g) ==
    /\ calls[g].pc = "create"
    /\ Len(made) < MaxCallers
    /\ made' = Append(made, calls[g].target)
    /\ sm' = [sm EXCEPT !.sessions[calls[g].target] = Len(made) + 1]
    /\ calls' = [calls EXCEPT ![g].pc = "unlock", ![g].ret = Len(made) + 1]
    /\ UNCHANGED <<fsFifo, att, captured, procVars>>

\* The deferred sm.mu.Unlock(), and the return of the Session.
GetReturn(g) ==
    /\ calls[g].pc = "unlock"
    /\ sm' = [sm EXCEPT !.mu = IF @ = g THEN 0 ELSE @]
    /\ calls' = [calls EXCEPT ![g].pc = "done"]
    /\ UNCHANGED <<made, fsFifo, att, captured, procVars>>

GetStep(g) ==
    \/ \E t \in Targets : GetLock(g, t)
    \/ GetLookup(g)
    \/ GetCreate(g)
    \/ GetReturn(g)

(***************************************************************************)
(* SpecGet: a SessionManager as NewSessionManager makes it, and the        *)
(* callers of Get, each asking for one of the targets.                     *)
(***************************************************************************)
InitGet ==
    /\ InitSession
    /\ sm = NewSessionManager
    /\ made = <<>>
    /\ ring = NewRingBuffer(RingBufferSize)
    /\ stream = <<>>
    /\ last = NoCall

NextGet == \E g \in Callers : GetStep(g)

SpecGet == InitGet /\ [][NextGet]_vars

(***************************************************************************)
(* The captures of the Sessions of one process (PTYManager.Open,           *)
(* closeLocked and fifoReadGoroutine in src/pty.go), each PTYManager       *)
(* naming its FIFO FifoPath.  A path names one inode at a time; a process  *)
(* that has opened the path keeps the inode it found there.                *)
(***************************************************************************)
\* Open of the PTYManager of target t: os.Remove(fifoPath) and
\* unix.Mkfifo(fifoPath) put a new FIFO at the path.
CaptureMkfifo(t) ==
    /\ sm.sessions[t] # 0
    /\ att[t].pc = "closed"
    /\ fsFifo.next < MaxInodes
    /\ fsFifo' = [ino |-> fsFifo.next + 1, next |-> fsFifo.next + 1]
    /\ att' = [att EXCEPT ![t].pc = "fifo", ![t].fifoPath = FifoPath]
    /\ UNCHANGED <<sm, made, calls, captured, procVars>>

\* Open, the rest: tmux pipe-pane -t t 'cat > fifoPath' starts the pane's
\* child, and go p.fifoReadGoroutine(fifoPath, stop) the reader.
CapturePipePane(t) ==
    /\ att[t].pc = "fifo"
    /\ att' = [att EXCEPT ![t].pc = "attached", ![t].cat = Opening, ![t].reader = Opening]
    /\ UNCHANGED <<sm, made, calls, fsFifo, captured, procVars>>

\* The shell of the pane's child opens the path for writing; where the
\* path names nothing, it creates a file there.
CaptureCatOpen(t) ==
    /\ att[t].cat = Opening
    /\ IF fsFifo.ino # 0
       THEN /\ att' = [att EXCEPT ![t].cat = fsFifo.ino]
            /\ UNCHANGED fsFifo
       ELSE /\ fsFifo.next < MaxInodes
            /\ fsFifo' = [ino |-> fsFifo.next + 1, next |-> fsFifo.next + 1]
            /\ att' = [att EXCEPT ![t].cat = fsFifo.next + 1]
    /\ UNCHANGED <<sm, made, calls, captured, procVars>>

\* fifoReadGoroutine: os.OpenFile(fifoPath, O_RDONLY); it returns when the
\* open fails.
CaptureReaderOpen(t) ==
    /\ att[t].reader = Opening
    /\ att' = [att EXCEPT ![t].reader = fsFifo.ino]
    /\ UNCHANGED <<sm, made, calls, fsFifo, captured, procVars>>

\* The pane of t prints: its child writes the bytes to the inode it holds,
\* and a reader holding that inode reads them and appends them to the ring
\* of its own PTYManager.
CaptureOutput(t) ==
    /\ att[t].cat > 0
    /\ \E r \in Targets :
        /\ att[r].reader = att[t].cat
        /\ captured' = [captured EXCEPT ![r] = @ \cup {t}]
    /\ UNCHANGED <<sm, made, calls, fsFifo, att, procVars>>

\* closeLocked of the PTYManager of t: the pane's child is stopped, the
\* reader's file is closed, and os.Remove(p.fifoPath) unlinks whatever the
\* path names now.
CaptureClose(t) ==
    /\ att[t].pc = "attached"
    /\ att' = [att EXCEPT ![t] = NoCapture]
    /\ fsFifo' = [fsFifo EXCEPT !.ino = 0]
    /\ UNCHANGED <<sm, made, calls, captured, procVars>>

CaptureStep(t) ==
    \/ CaptureMkfifo(t)
    \/ CapturePipePane(t)
    \/ CaptureCatOpen(t)
    \/ CaptureReaderOpen(t)
    \/ CaptureOutput(t)
    \/ CaptureClose(t)

(***************************************************************************)
(* SpecTwo: the Sessions of two targets in one process, made by Get, each  *)
(* opening and closing its capture as its pane comes and goes.             *)
(***************************************************************************)
NextTwo ==
    \/ \E g \in Callers : GetStep(g)
    \/ \E t \in Targets : CaptureStep(t)

SpecTwo == InitGet /\ [][NextTwo]_vars

(***************************************************************************)
(* SessionManager.CloseAll and Session.Close (src/unnamed/part_009), and   *)
(* the ends of the two goroutines that watch the Session's ctx.            *)
(***************************************************************************)
\* What neither CloseAll nor a goroutine's return changes.
runVars == <<ringVars, envVars, events, rd, hubVars, gone, inVars, upVars, by,
             made, calls, fsFifo, att, captured, skipped>>

\* The mark CloseAll leaves in sm.mu; the callers of Get are 1..MaxCallers.
CloseAllCaller == -1

\* sm.mu.Lock(), and the range over sm.sessions begins.
CloseAllLock ==
    /\ ca.pc = "idle"
    /\ sm.mu = 0
    /\ sm' = [sm EXCEPT !.mu = CloseAllCaller]
    /\ ca' = [pc |-> "loop", cur |-> 0,
              todo |-> {sm.sessions[t] : t \in Targets} \ {0}]
    /\ UNCHANGED <<cancelled, mon, sup, ptyVars, runVars>>

\* The loop reaches Session s (a Go map is ranged in no fixed order);
\* Session.Close begins with s.cancel().  sm.sessions is left as it is.
CloseAllCancel(s) ==
    /\ ca.pc = "loop"
    /\ s \in ca.todo
    /\ cancelled' = cancelled \cup {s}
    /\ ca' = [pc |-> "close", cur |-> s, todo |-> ca.todo \ {s}]
    /\ UNCHANGED <<sm, mon, sup, ptyVars, runVars>>

\* Session.Close, the rest: s.PTY.Close(), which takes p.mu.
CloseAllPTY ==
    /\ ca.pc = "close"
    /\ IF ca.cur = 1
       THEN ~ptyLocked /\ closeLocked
       ELSE UNCHANGED ptyVars
    /\ ca' = [ca EXCEPT !.pc = "loop", !.cur = 0]
    /\ UNCHANGED <<sm, cancelled, mon, sup, runVars>>

\* The loop is over; the deferred sm.mu.Unlock().
CloseAllReturn ==
    /\ ca.pc = "loop"
    /\ ca.todo = {}
    /\ sm' = [sm EXCEPT !.mu = 0]
    /\ ca' = [ca EXCEPT !.pc = "done"]
    /\ UNCHANGED <<cancelled, mon, sup, ptyVars, runVars>>

CloseAllStep ==
    \/ CloseAllLock
    \/ \E s \in 1..MaxCallers : CloseAllCancel(s)
    \/ CloseAllPTY
    \/ CloseAllReturn

\* The supervisor's select takes case <-ctx.Done() and returns.  While an
\* event waits too, select may as well take the event (SupConnected,
\* SupMissing).
SupExit ==
    /\ sup.pc = "idle"
    /\ 1 \in cancelled
    /\ sup' = [sup EXCEPT !.pc = "done"]
    /\ UNCHANGED <<sm, closeVars, mon, ptyVars, runVars>>

\* PaneMonitor.Run's select takes case <-ctx.Done() and returns; while the
\* ticker has fired too, select may as well take the tick (MonitorCheck).
MonitorExit ==
    /\ mon.run
    /\ 1 \in cancelled
    /\ mon' = [mon EXCEPT !.run = FALSE]
    /\ UNCHANGED <<sm, closeVars, sup, ptyVars, runVars>>

(***************************************************************************)
(* SpecClose: SpecBridge with a call of CloseAll at any moment.            *)
(***************************************************************************)
NextClose ==
    \/ NextBridge
    \/ CloseAllStep
    \/ SupExit
    \/ MonitorExit

SpecClose == Init /\ [][NextClose]_vars

(***************************************************************************)
(* SpecSafe: every caller of Close.  The Session of SpecClose with a pane  *)
(* that prints nothing, an Open that may fail at mkfifo, and readers that  *)
(* may find p.mu taken when their open returns.                            *)
(***************************************************************************)
NextSafe ==
    \/ \E t \in TTYs : PaneCreate(t)
    \/ PaneDestroy
    \/ MonitorCheck
    \/ SupConnected
    \/ OpenBegin
    \/ OpenEnd
    \/ OpenMkfifoFails
    \/ SupStatusConnected
    \/ SupMissing
    \/ SupStatusMissing
    \/ \E a \in Attachments :
        ReaderConnect(a) \/ ReaderOpened(a) \/ ReaderStore(a) \/ ReaderExit(a)
    \/ CloseAllStep
    \/ SupExit
    \/ MonitorExit

SpecSafe == Init /\ [][NextSafe]_vars

(***************************************************************************)
(* SpecShut: SpecGet with a call of CloseAll at any moment.                *)
(***************************************************************************)
NextShut ==
    \/ NextGet
    \/ CloseAllStep

SpecShut == InitGet /\ [][NextShut]_vars

(***************************************************************************)
(* SpecLeave: SpecClient with a call of CloseAll at any moment.  Client.Run *)
(* is given r.Context(), the context of the HTTP request (src/server.go),   *)
(* so the client's steps do not look at the Session's ctx.                  *)
(***************************************************************************)
NextLeave ==
    \/ NextClient
    \/ CloseAllStep
    \/ SupExit
    \/ MonitorExit

SpecLeave == Init /\ [][NextLeave]_vars

(***************************************************************************)
(* The upload handler (src/upload.go).  A file name is its base and the    *)
(* extension filepath.Ext finds; sha256 is taken to be free of collisions, *)
(* so the hex digest of a content is a value that names the content.       *)
(***************************************************************************)
Contents == {"C", "D"}
RawExts == {".png", ".PNG", ".jpeg", ".jpg", ".gif"}
FileNames == [base : {"a", "b"}, ext : RawExts]

\* strings.ToLower on the extensions of RawExts.
ToLower(e) == IF e = ".PNG" THEN ".png" ELSE e

\* ext := strings.ToLower(filepath.Ext(header.Filename)); ".jpeg" is ".jpg".
normExt(file) == LET e == ToLower(file.ext) IN IF e = ".jpeg" THEN ".jpg" ELSE e

allowedExts == {".png", ".jpg", ".jpeg", ".webp"}

\* hex.EncodeToString(sha256.Sum256(data))
hexHash(data) == <<"sha256", data>>

\* A plausible slip: the stored file keeps the name it was uploaded under.
destPathKeepsName(file, data, ext) == <<<<"name", file.base>>, ext>>

\* destPath: cfg.UploadDir joined with hexHash + ext.
destPath(file, data, ext) == <<hexHash(data), ext>>

\* One upload request, from the parsed form to the answer: the extension is
\* checked, the file is written unless one of that name exists, the prompt
\* naming the path goes to WriteInput, and path and hash are returned.
Upload(file, data) ==
    LET ext == normExt(file)
        dest == destPath(file, data, ext)
    IN  /\ Len(uploads) < MaxUploads
        /\ IF ext \notin allowedExts
           THEN /\ uploads' = Append(uploads, [data |-> data, file |-> file, code |-> 400,
                                                path |-> <<>>, hash |-> <<>>])
                /\ UNCHANGED <<store, writeCh>>
           ELSE /\ store' = IF \E f \in store : f.name = dest THEN store
                            ELSE store \cup {[name |-> dest, data |-> data]}
                /\ writeCh' = WriteInput(writeCh, [from |-> "upload", k |-> Len(uploads) + 1])
                /\ uploads' = Append(uploads, [data |-> data, file |-> file, code |-> 200,
                                                path |-> dest, hash |-> hexHash(data)])
        /\ UNCHANGED <<resizeCh, wl, keys, typed, winsize, sm, made, calls, fsFifo, att,
                       captured, by, closeVars, skipped, ringVars, envVars, monVars, sup,
                       ptyVars, rd, hubVars, gone>>

(***************************************************************************)
(* SpecUpload: upload requests for the Session of main's target, any       *)
(* content under any file name.                                            *)
(***************************************************************************)
NextUpload == \E file \in FileNames, data \in Contents : Upload(file, data)

SpecUpload == Init /\ [][NextUpload]_vars

(***************************************************************************)
(* SpecRing: a ring of any capacity 1..MaxCap under any sequence of Write  *)
(* and ReadFrom calls.                                                     *)
(***************************************************************************)
pipeVars == <<pane, paneCount, produced, pipeTo, mon, events, sup, pty, stopped, rd,
              attaches, hub, cl, recv, lost, gone, inVars, sessVars>>

InitRing ==
    /\ InitPipe
    /\ ring \in {NewRingBuffer(sz) : sz \in 1..MaxCap}
    /\ stream = <<>>
    /\ last = NoCall

RingWrite ==
    \E data \in SeqsUpTo(Bytes, MaxAppend) :
        /\ ring.writePos + Len(data) <= MaxWritePos
        /\ ring' = Write(ring, data)
        /\ stream' = stream \o data
        /\ last' = [NoCall EXCEPT !.op = "Write", !.before = ring.writePos,
                                  !.len = Len(data)]
        /\ UNCHANGED pipeVars

RingReadFrom ==
    \E offset \in (-1)..(MaxWritePos + 1), dstLen \in 0..MaxDst :
        LET r == ReadFrom(ring, offset, dstLen) IN
        /\ last' = [NoCall EXCEPT !.op = "ReadFrom", !.offset = offset,
                                  !.dstLen = dstLen, !.before = ring.writePos,
                                  !.n = r.n, !.next = r.next, !.err = r.err,
                                  !.data = r.data]
        /\ UNCHANGED <<ring, stream>>
        /\ UNCHANGED pipeVars

\* Snapshot(): last.data and last.next are the bytes and the start offset
\* it returned.
RingSnapshot ==
    LET r == Snapshot(ring) IN
    /\ last' = [NoCall EXCEPT !.op = "Snapshot", !.before = ring.writePos,
                              !.n = Len(r.data), !.next = r.offset, !.data = r.data]
    /\ UNCHANGED <<ring, stream>>
    /\ UNCHANGED pipeVars

\* Tail(n) with n = last.dstLen: last.data and last.next are the bytes and
\* the start offset it returned.
RingTail ==
    \E n \in 0..(MaxDst + 1) :
        LET r == RbTail(ring, n) IN
        /\ last' = [NoCall EXCEPT !.op = "Tail", !.dstLen = n, !.before = ring.writePos,
                                  !.n = Len(r.data), !.next = r.offset, !.data = r.data]
        /\ UNCHANGED <<ring, stream>>
        /\ UNCHANGED pipeVars

NextRing == RingWrite \/ RingReadFrom \/ RingSnapshot \/ RingTail

SpecRing == InitRing /\ [][NextRing]_vars

\* C8: after any appends, ReadFrom(o, dst) succeeds for every offset
\* o >= max(0, writePos - capacity); for every offset below that bound it
\* returns the overwritten error, zero bytes, and nextOffset equal to
\* max(0, writePos - capacity).
C8_ReadFromRetention ==
    last.op = "ReadFrom" =>
        LET bound == Max(0, last.before - ring.size) IN
        IF last.offset >= bound
        THEN last.err = "nil"
        ELSE last.err = "overwritten" /\ last.n = 0 /\ last.next = bound

\* A read below the retained window of a ring that has wrapped: it is sent
\* forward to a positive offset.
C8_Witness ==
    /\ last.op = "ReadFrom"
    /\ last.err = "overwritten"
    /\ last.next > 0
    /\ last.offset >= 0

\* C9: for every call ReadFrom(offset, dst) the returned nextOffset is at
\* most the ring's writePos at the time of the call.
C9_NextOffsetAtMostWritePos ==
    last.op = "ReadFrom" => last.next <= last.before

\* C11: after appends totalling W bytes into a ring of capacity N, Snapshot
\* returns exactly the last min(W, N) bytes of the appended stream in write
\* order and the start offset max(0, W - N); with no appends, no bytes and
\* offset 0.
C11_SnapshotIsRetainedSuffix ==
    last.op = "Snapshot" =>
        LET W == Len(stream)
            k == Min(W, ring.size)
        IN  /\ last.data = SubSeq(stream, W - k + 1, W)
            /\ last.next = Max(0, W - ring.size)
            /\ W = 0 => (last.data = <<>> /\ last.next = 0)

\* A snapshot of a ring that has wrapped to the middle of its storage, so
\* the copy takes two pieces.
C11_Witness ==
    /\ last.op = "Snapshot"
    /\ Len(stream) > ring.size
    /\ Len(stream) % ring.size # 0
    /\ Len(last.data) = ring.size

\* C20: Tail(n) returns the last min(n, retained) bytes of the appended
\* stream in write order, retained = min(writePos, capacity), and the start
\* offset writePos minus the number of bytes returned.
C20_TailIsSuffix ==
    last.op = "Tail" =>
        LET W == Len(stream)
            retained == Min(ring.writePos, ring.size)
            k == Min(last.dstLen, retained)
        IN  /\ last.data = SubSeq(stream, W - k + 1, W)
            /\ last.next = ring.writePos - Len(last.data)

\* Tail asked for more than a wrapped ring retains, and for less.
C20_Witness ==
    /\ last.op = "Tail"
    /\ Len(stream) > ring.size
    /\ last.dstLen > ring.size
    /\ Len(last.data) = ring.size
    /\ ring.size >= 2

C6_ReattachedAfterRecreate ==
    LET Settled == /\ pane # "none"
                   /\ mon.state = "connected" /\ mon.lastTTY = pane
                   /\ events = <<>>
                   /\ sup.pc = "idle"
        Attached == /\ pty.stopCh # 0
                    /\ pipeTo = pty.stopCh
                    /\ rd[pty.stopCh].pc \in {"open", "read", "write", "bcast", "inbcast"}
    IN  (paneCount >= 2 /\ Settled) => Attached

\* C7: the Epoch starts at 0 and never decreases; every successful attach
\* leaves it strictly larger than the attach before it did; and when an
\* attach starts its capture reader the increment has already happened.
C7_EpochIncreases ==
    /\ pty.epoch = 0
    /\ [][pty.epoch' >= pty.epoch]_vars
    /\ [](\A i \in 1..Len(attaches) :
            /\ attaches[i].at > attaches[i].before
            /\ i > 1 => attaches[i].at > attaches[i - 1].at)
    /\ [][\A a \in Attachments :
            (rd[a].pc = "none" /\ rd'[a].pc = "open") =>
                (pty.epoch > sup.e0 /\ pty'.epoch = pty.epoch)]_vars

\* Two successful attaches with a Close in between.
C7_Witness ==
    /\ Len(attaches) >= 2
    /\ stopped # {}
    /\ rd[pty.made].pc = "open"

(***************************************************************************)
(* Properties of the fan-out (SpecHub, Spec).                              *)
(***************************************************************************)
\* C1, as the code has it: the chunk a capture reader broadcasts is a chunk
\* it has appended to the ring; the broadcast enqueues it as an output
\* frame to every Client registered with the Hub at that moment whose queue
\* has room, and to nobody else; and the write pump hands the queued frames
\* to the connection in queue order.
C1_EnqueuedWhenRegisteredWithRoom ==
    /\ [](\A a \in Attachments :
            rd[a].pc \in {"bcast", "inbcast"} =>
                /\ Len(rd[a].data) >= 1
                /\ \E k \in 1..Len(stream) :
                       rd[a].data = SubSeq(stream, k, k + Len(rd[a].data) - 1))
    /\ [][\A a \in Attachments :
            (rd[a].pc = "inbcast" /\ rd'[a].pc = "read") =>
                \A c \in ClientIds :
                    IF c \in hub /\ ~Full(c)
                    THEN cl'[c].sendCh = Append(cl[c].sendCh, OutputFrame(rd[a].data))
                    ELSE cl'[c].sendCh = cl[c].sendCh]_vars
    /\ [][\A c \in ClientIds :
            recv'[c] # recv[c] =>
                \/ cl[c].pc = "hello"
                \/ /\ cl[c].sendCh # <<>>
                   /\ recv'[c] = Append(recv[c], Head(cl[c].sendCh))
                   /\ cl'[c].sendCh = Tail(cl[c].sendCh)]_vars

\* A registered Client holds a broadcast chunk on its queue while the other
\* registered Client has already received the same chunk.
C1_Witness ==
    \E c \in hub : \E d \in hub \ {c} :
        /\ \E i \in 1..Len(cl[c].sendCh) : cl[c].sendCh[i].type = "output"
        /\ \E i \in 1..Len(cl[c].sendCh), j \in 1..Len(recv[d]) :
               /\ cl[c].sendCh[i].type = "output"
               /\ recv[d][j] = cl[c].sendCh[i]

\* C1, as stated: every Client that was registered before the chunk was
\* appended and has not been slow-evicted gets the chunk.
C1_EveryRegisteredGetsChunk ==
    [][\A a \in Attachments :
        (rd[a].pc = "inbcast" /\ rd'[a].pc = "read") =>
            \A c \in rd[a].regs :
                ~cl[c].evict =>
                    cl'[c].sendCh = Append(cl[c].sendCh, OutputFrame(rd[a].data))]_vars

\* C2: Broadcast never blocks.  A reader that has a chunk to broadcast can
\* always enter Broadcast and, once inside, can always finish it, whatever
\* the queues hold; finishing takes the reader back to its next Read; and
\* every registered Client whose queue has room gets the frame even when
\* another Client's queue is full.
C2_BroadcastNeverBlocks ==
    /\ [](\A a \in Attachments :
            /\ rd[a].pc = "bcast" => ENABLED BroadcastBegin(a)
            /\ rd[a].pc = "inbcast" => ENABLED BroadcastEnd(a))
    /\ [][\A a \in Attachments :
            (rd[a].pc = "inbcast" /\ rd'[a].pc # "inbcast") =>
                /\ rd'[a].pc = "read"
                /\ (\E full \in hub : Full(full)) =>
                       \A c \in hub :
                           ~Full(c) => Len(cl'[c].sendCh) = Len(cl[c].sendCh) + 1]_vars

\* A broadcast has finished although one Client's queue was full, and the
\* other Client has the frame that Client lost.
C2_Witness ==
    \E c \in hub : \E d \in hub \ {c} :
        \E x \in lost[c] :
            \/ \E i \in 1..Len(cl[d].sendCh) : cl[d].sendCh[i] = OutputFrame(x)
            \/ \E j \in 1..Len(recv[d]) : recv[d][j] = OutputFrame(x)

\* C3: every output frame that finds a Client's queue full is counted in that
\* Client's dropped counter, and the Hub closes the Client's connection when
\* and only when the counter has reached the threshold.
C3_EveryDropCounted ==
    \A c \in ClientIds :
        /\ cl[c].dropped = Cardinality(lost[c])
        /\ cl[c].evict <=> cl[c].dropped >= DropThreshold

\* C4: of any two output frames delivered to one Client, the bytes of the
\* earlier frame precede the bytes of the later frame in the ring's stream.
C4_FramesInStreamOrder ==
    \A c \in ClientIds :
        LET outs == SelectSeq(recv[c], LAMBDA f : f.type = "output")
            pos(v) == CHOOSE k \in 1..Len(stream) : stream[k] = v
        IN  \A i, j \in 1..Len(outs) :
                i < j =>
                    \A x \in 1..Len(outs[i].data), y \in 1..Len(outs[j].data) :
                        pos(outs[i].data[x]) < pos(outs[j].data[y])

\* C5: a Client registered when the pane was destroyed, once the pane is
\* back, the monitor and the supervisor have nothing left to do and the
\* Client's queue is drained, has observed a "missing" status frame and after
\* it a "connected" status frame whose epoch is larger than the Epoch in
\* force at the destruction.
C5_MissingThenConnected ==
    \A c \in ClientIds :
        ( /\ c \in gone.regs /\ c \in hub
          /\ paneCount >= 2 /\ pane # "none"
          /\ mon.state = "connected" /\ mon.lastTTY = pane
          /\ events = <<>> /\ sup.pc = "idle"
          /\ cl[c].sendCh = <<>> /\ cl[c].conn = "open" )
        => \E i, j \in 1..Len(recv[c]) :
               /\ i < j
               /\ recv[c][i].type = "status" /\ recv[c][i].paneState = "missing"
               /\ recv[c][j].type = "status" /\ recv[c][j].paneState = "connected"
               /\ recv[c][j].epoch > gone.epoch

(***************************************************************************)
(* Properties of one Client's connection (SpecClient).                     *)
(***************************************************************************)
\* C12: in full replay mode the output frames sent during replay,
\* concatenated in order, are the ring's snapshot at that moment (none for an
\* empty ring, and the hello still succeeds), each frame carries at most
\* chunkSize bytes, and they are all on the connection before the Client is
\* registered, so before any live frame can be queued for it.  A replay cut
\* short by a write error has sent a prefix of those frames and the Client
\* is never registered.
C12_ReplayIsSnapshot ==
    /\ [](\A c \in ClientIds :
            cl[c].pc \in {"hello", "register"} => (c \notin hub /\ cl[c].sendCh = <<>>))
    /\ [][\A c \in ClientIds :
            LET sent == SubSeq(recv'[c], Len(recv[c]) + 1, Len(recv'[c]))
                cat[i \in 0..Len(sent)] ==
                    IF i = 0 THEN <<>> ELSE cat[i - 1] \o sent[i].data
                snap == Snapshot(ring).data
            IN  /\ ClientHello(c, "full") =>
                    /\ recv[c] = <<>>
                    /\ cat[Len(sent)] = snap
                    /\ \A i \in 1..Len(sent) :
                           /\ sent[i].type = "output"
                           /\ Len(sent[i].data) >= 1
                           /\ Len(sent[i].data) <= chunkSize
                    /\ cl'[c].pc = "register"
                /\ ReplayFail(c) =>
                    /\ Len(cat[Len(sent)]) < Len(snap)
                    /\ cat[Len(sent)] = SubSeq(snap, 1, Len(cat[Len(sent)]))
                    /\ c \notin hub'
                    /\ cl'[c].pc = "closed"]_vars

\* A Client has replayed a snapshot in more than one frame and is about to
\* be registered.
C12_Witness ==
    \E c \in ClientIds :
        /\ cl[c].pc = "register"
        /\ Len(recv[c]) >= 2
        /\ Len(Snapshot(ring).data) > chunkSize

\* C13: a client whose first frame is not a well-formed hello (invalid JSON,
\* an unknown type, or a valid input or resize frame) is sent one error
\* frame and nothing else, its connection is closed, it is not registered
\* with the hub, and no input of it is in writeCh, in a writeLoop or at the
\* pane.
C13_BadHelloRefused ==
    \A c \in ClientIds :
        cl[c].first \in BadHellos =>
            /\ recv[c] = <<ErrorFrame(helloError(cl[c].first))>>
            /\ cl[c].pc = "closed" /\ cl[c].conn = "closed"
            /\ c \notin hub
            /\ cl[c].sendCh = <<>>
            /\ typed[c] = [input |-> 0, resize |-> 0]
            /\ \A i \in 1..Len(writeCh) : writeCh[i].from # c
            /\ \A i \in 1..Len(keys) : keys[i].from # c
            /\ \A a \in Attachments : wl[a].msg.from # c

\* An input frame came first while the attachment's writeLoop was running
\* and waiting for input.
C13_Witness ==
    \E c \in ClientIds, a \in Attachments :
        /\ cl[c].first = "input"
        /\ wl[a].pc = "idle"
        /\ recv[c] # <<>>

C14_MissingAtStartup ==
    paneCount = 0 =>
        \A c \in ClientIds :
            LET st == SelectSeq(recv[c], LAMBDA f : f.type = "status") IN
            /\ \A i \in 1..Len(st) : st[i].paneState # "connected"
            /\ st # <<>> => st[1] = StatusFrame("missing", 0)

\* C15: the input messages of one client that tmux has delivered to the
\* pane were delivered in the order the client sent them, each once.
C15_InputInOrder ==
    \A i \in 1..Len(keys) : \A j \in (i + 1)..Len(keys) :
        keys[i].from = keys[j].from => keys[i].k < keys[j].k

\* C16: the clients registered with the hub are those whose readPump has
\* completed replay and registered and has not yet returned on the end of
\* its connection, so Hub.ClientCount is their number; a client that never
\* completed replay is not among them; and once every client's connection
\* is closed the count comes back to 0.
C16_CountIsLiveClients ==
    /\ [](/\ hub = {c \in ClientIds : cl[c].pc \in {"status", "live"}}
          /\ \A c \in hub : cl[c].first = "hello" /\ ~cl[c].chClosed)
    /\ (\A c \in ClientIds : cl[c].conn = "closed") ~> (Cardinality(hub) = 0)

\* Both clients were registered, one has left and the other is still
\* counted.
C16_Witness ==
    \E c \in ClientIds : \E d \in ClientIds \ {c} :
        /\ cl[c].pc = "closed" /\ cl[c].chClosed
        /\ d \in hub
        /\ Cardinality(hub) = 1

\* C17: however the calls of Get interleave, createLocked has run at most
\* once for a target, and every call that has its result was given the
\* Session made for its target, the one the map holds: calls with the same
\* target were given the same Session.
C17_OneSessionPerTarget ==
    /\ \A i \in 1..Len(made) : \A j \in 1..Len(made) : made[i] = made[j] => i = j
    /\ \A t \in Targets : sm.sessions[t] # 0 => made[sm.sessions[t]] = t
    /\ \A g \in Callers :
         calls[g].pc \in {"unlock", "done"} =>
             /\ calls[g].ret \in 1..Len(made)
             /\ made[calls[g].ret] = calls[g].target
             /\ calls[g].ret = sm.sessions[calls[g].target]
    /\ \A g \in Callers : \A h \in Callers :
         (/\ calls[g].pc = "done" /\ calls[h].pc = "done"
          /\ calls[g].target = calls[h].target) => calls[g].ret = calls[h].ret

\* Two calls for one target and one for the other have returned.
C17_Witness ==
    \E g \in Callers : \E h \in Callers \ {g} : \E k \in Callers \ {g, h} :
        /\ calls[g].pc = "done" /\ calls[h].pc = "done" /\ calls[k].pc = "done"
        /\ calls[g].target = calls[h].target
        /\ calls[k].target # calls[g].target
        /\ Len(made) = 2

\* C18: the ring of a Session holds output of its own pane only; two
\* Sessions whose captures are open do not name the same FIFO path; and the
\* reader of an open capture reads the file its own pane's child writes,
\* whatever the other Session opens or closes.
C18_SessionsIsolated ==
    /\ \A t \in Targets : captured[t] \subseteq {t}
    /\ \A t \in Targets : \A u \in Targets \ {t} :
         (att[t].pc # "closed" /\ att[u].pc # "closed") => att[t].fifoPath # att[u].fifoPath
    /\ \A t \in Targets :
         (att[t].cat > 0 /\ att[t].reader > 0) => att[t].cat = att[t].reader

\* C21: for an offset o inside the retained window, ReadFrom(o, dst) copies
\* n = min(len(dst), writePos - o) bytes, they are the bytes at the stream
\* offsets o .. o+n-1 of what was appended, also where that range wraps
\* around the end of the storage, and the returned nextOffset is o + n.
C21_ReadFromCopiesStream ==
    (/\ last.op = "ReadFrom"
     /\ last.offset >= Max(0, last.before - ring.size)
     /\ last.offset <= last.before) =>
        LET n == Min(last.dstLen, last.before - last.offset) IN
        /\ last.err = "nil"
        /\ last.n = n
        /\ last.data = SubSeq(stream, last.offset + 1, last.offset + n)
        /\ last.next = last.offset + n

\* A read of two bytes or more whose range runs over the end of the
\* storage of a ring that has wrapped.
C21_Witness ==
    /\ last.op = "ReadFrom"
    /\ last.err = "nil"
    /\ last.n >= 2
    /\ last.before > ring.size
    /\ (last.offset % ring.size) + last.n > ring.size

C23_ReplayThenLiveIsStream ==
    \A c \in ClientIds :
        lost[c] = {} =>
            LET outs == SelectSeq(recv[c], LAMBDA f : f.type = "output")
                cat[i \in 0..Len(outs)] ==
                    IF i = 0 THEN <<>> ELSE cat[i - 1] \o outs[i].data
                got == cat[Len(outs)]
            IN  \E o \in 0..Len(stream) :
                    /\ o + Len(got) <= Len(stream)
                    /\ got = SubSeq(stream, o + 1, o + Len(got))

\* C24: a status frame carries an Epoch that was published before it was
\* sent, and every output frame a Client receives after a status frame with
\* epoch E holds bytes read by an attachment whose Epoch is at least E.
C24_OutputAfterStatusIsCurrent ==
    \A c \in ClientIds :
        \A i \in 1..Len(recv[c]) :
            recv[c][i].type = "status" =>
                /\ recv[c][i].epoch <= Epoch
                /\ \A j \in (i + 1)..Len(recv[c]) :
                     recv[c][j].type = "output" =>
                         \A x \in 1..Len(recv[c][j].data) :
                             by[recv[c][j].data[x]] >= recv[c][i].epoch

\* C25: once Close has returned for an attachment (its stop channel is
\* closed), no goroutine of that attachment appends to the ring,
\* broadcasts, takes a message from writeCh or runs a tmux command.
C25_NoStepAfterClose ==
    [][\A a \in stopped :
          /\ ~ReaderWrite(a)
          /\ ~BroadcastBegin(a)
          /\ ~BroadcastEnd(a)
          /\ ~WriteLoopTake(a)
          /\ ~WriteLoopSend(a)]_vars


\* C26: no transition of the monitor is lost for good.  When the monitor has
\* polled the pane as it now is (so further polls find nothing new), no
\* event waits and the supervisor is idle, the last event the supervisor
\* acted on carries the monitor's current state, and for a connected pane
\* the monitor's current tty.
C26_DroppedEventReemitted ==
    LET Polled == \/ pane = "none" /\ mon.state = "missing"
                  \/ pane # "none" /\ mon.state = "connected" /\ mon.lastTTY = pane
    IN  (Polled /\ events = <<>> /\ sup.pc = "idle") =>
            /\ sup.acted = mon.state
            /\ mon.state = "connected" => sup.tty = mon.lastTTY

\* C27: a failed Open is made good.  When the supervisor's last event was a
\* "connected" one for the tty the pane holds, the monitor has polled the
\* pane as it is, no event waits and the supervisor is idle, the PTYManager
\* is attached: tmux pipes to the current attachment and its capture reader
\* runs.
C27_FailedOpenRetried ==
    ( /\ pane # "none"
      /\ mon.state = "connected" /\ mon.lastTTY = pane
      /\ events = <<>>
      /\ sup.pc = "idle" /\ sup.acted = "connected" /\ sup.tty = pane )
    => /\ pty.stopCh # 0
       /\ pipeTo = pty.stopCh
       /\ rd[pty.stopCh].pc # "none"

\* C28: once CloseAll has returned the PTYManager is closed and stays
\* closed: it has no stop channel and no open pty, and tmux pipes to no
\* attachment.
C28_ClosedStaysClosed ==
    ca.pc = "done" =>
        /\ pty.stopCh = 0
        /\ pty.ptyFile \notin TTYs
        /\ pipeTo = 0

\* C29: once CloseAll has returned, sm.sessions holds no Session that was
\* closed, and a Get that holds sm.mu returns none.
C29_NoClosedSessionKept ==
    ca.pc = "done" =>
        /\ \A t \in Targets : sm.sessions[t] \notin cancelled
        /\ \A g \in Callers : calls[g].pc = "unlock" => calls[g].ret \notin cancelled

\* C30: cancelling the Session's context ends its Subscribers.  When
\* CloseAll has returned and the supervisor and the monitor have returned,
\* no Client is left in its read loop, registered with the Hub, with an
\* open connection, a running writePump and nothing to send.
C30_CancelEndsSubscribers ==
    ( /\ ca.pc = "done" /\ 1 \in cancelled
      /\ sup.pc = "done" /\ ~mon.run )
    => \A c \in ClientIds :
           ~( /\ cl[c].pc = "live" /\ c \in hub
              /\ cl[c].conn = "open" /\ cl[c].wp = "run"
              /\ cl[c].sendCh = <<>> )

\* C31: a chunk is in the ring before it is broadcast.  Every byte of every
\* output frame in a Client's send queue or already read by its browser is
\* a byte of the stream written to the ring, at an offset the ring's
\* writePos has reached.
C31_AppendedBeforeBroadcast ==
    \A c \in ClientIds :
        LET held == cl[c].sendCh \o recv[c] IN
        \A j \in 1..Len(held) :
            held[j].type = "output" =>
                \A i \in 1..Len(held[j].data) :
                    \E k \in 1..Len(stream) :
                        /\ stream[k] = held[j].data[i]
                        /\ WritePos(ring) >= k

\* A Client has read an output frame after its status frame: a live one.
C31_Witness ==
    \E c \in ClientIds :
        \E i, j \in 1..Len(recv[c]) :
            /\ i < j
            /\ recv[c][i].type = "status"
            /\ recv[c][j].type = "output"

\* C32: a poll that resolves a tty p while the monitor holds the pane for
\* missing makes it connected on p and sends a connected event for p with
\* NewTTY set into the event channel (where the channel has room), whether
\* or not p is the tty recorded before the pane went.
C32_MissingToConnectedEmits ==
    [][(MonitorCheck /\ mon.state = "missing" /\ ~ResolvePaneTTY.err) =>
          LET p == ResolvePaneTTY.tty IN
          /\ mon'.state = "connected"
          /\ mon'.lastTTY = p
          /\ events' = IF Len(events) < EventsCap
                       THEN Append(events, [state |-> "connected", tty |-> p,
                                            newTTY |-> TRUE])
                       ELSE events]_vars

\* The supervisor attached to a tty, the pane went missing, and the pane
\* found again on that same tty has been reported with NewTTY set.
C32_Witness ==
    /\ Len(events) = 2
    /\ events[1].state = "missing"
    /\ events[2] = [state |-> "connected", tty |-> sup.tty, newTTY |-> TRUE]
    /\ sup.acted = "connected"
    /\ mon.state = "connected"

\* C33: a poll that fails to resolve the pane while the monitor holds it
\* for connected makes the monitor missing and sends one missing event; a
\* failed poll while it is missing changes nothing and sends nothing.
C33_ConnectedToMissingOnce ==
    [][(MonitorCheck /\ ResolvePaneTTY.err) =>
          IF mon.state = "connected"
          THEN /\ mon'.state = "missing"
               /\ events' = IF Len(events) < EventsCap
                            THEN Append(events, [state |-> "missing", tty |-> "",
                                                 newTTY |-> FALSE])
                            ELSE events
          ELSE UNCHANGED <<mon, events>>]_vars

\* The monitor saw the pane and then lost it: the last event is "missing".
C33_Witness ==
    /\ mon.state = "missing"
    /\ mon.lastTTY \in TTYs
    /\ pane = "none"
    /\ events # <<>>
    /\ events[Len(events)].state = "missing"

\* C34: a poll that resolves the recorded tty while the monitor is
\* connected changes nothing and sends nothing; one that resolves another
\* tty records it and sends a connected event for it with NewTTY set.
C34_ConnectedPoll ==
    [][(MonitorCheck /\ mon.state = "connected" /\ ~ResolvePaneTTY.err) =>
          LET p == ResolvePaneTTY.tty IN
          IF p = mon.lastTTY
          THEN UNCHANGED <<mon, events>>
          ELSE /\ mon'.state = "connected"
               /\ mon'.lastTTY = p
               /\ events' = IF Len(events) < EventsCap
                            THEN Append(events, [state |-> "connected", tty |-> p,
                                                 newTTY |-> TRUE])
                            ELSE events]_vars

\* The pane was replaced between two polls: two connected events in a row,
\* for different ttys.
C34_Witness ==
    /\ Len(events) = 2
    /\ events[1].state = "connected" /\ events[2].state = "connected"
    /\ events[1].tty # events[2].tty
    /\ events[2].newTTY
    /\ mon.lastTTY = events[2].tty

\* C35: a pane_tty that is empty or does not begin with /dev/ is a failed
\* resolution.  The monitor never records such a value, no connected event
\* carries one, the supervisor is never handed one, and a poll that finds
\* one does what a poll that finds no pane does.
C35_OddTTYIsFailure ==
    /\ [](/\ mon.lastTTY \in TTYs \cup {""}
          /\ sup.tty \in TTYs \cup {""}
          /\ \A i \in 1..Len(events) :
                events[i].state = "connected" => events[i].tty \in TTYs)
    /\ [][(MonitorCheck /\ pane \in OddTTYs) =>
             /\ ResolvePaneTTY.err
             /\ mon'.state = "missing"
             /\ mon'.lastTTY = mon.lastTTY
             /\ \A i \in 1..Len(events') : events'[i].tty \notin OddTTYs]_vars

\* A pane with an odd pane_tty took the place of one the monitor had seen,
\* and the monitor holds the pane for missing.
C35_Witness ==
    /\ pane \in OddTTYs
    /\ mon.state = "missing"
    /\ mon.lastTTY \in TTYs
    /\ events # <<>>
    /\ events[Len(events)].state = "missing"

\* C36: in the read loop a frame that is invalid JSON, has an unknown type,
\* is a hello, or is an input frame whose data is no base64 is skipped.  The
\* step that reads it leaves the client as it was, registered and with its
\* connection open, and leaves writeCh, the writeLoops and the keys at the
\* pane alone; no message is ever in flight for a skipped input frame; and
\* every input frame read without a skip, also after a skipped frame, is
\* handed to writeCh.
C36_BadFrameSkipped ==
    /\ [][\A c \in ClientIds :
             skipped'[c] # skipped[c] =>
                 /\ cl' = cl /\ hub' = hub
                 /\ c \in hub /\ cl[c].conn = "open" /\ cl[c].pc = "live"
                 /\ UNCHANGED <<writeCh, resizeCh, wl, keys, winsize>>]_vars
    /\ [](\A c \in ClientIds : \A j \in 1..Len(skipped[c]) :
             LET m == [from |-> c, k |-> skipped[c][j].k] IN
             skipped[c][j].kind = "invalid base64" =>
                 /\ \A i \in 1..Len(writeCh) : writeCh[i] # m
                 /\ \A i \in 1..Len(keys) : keys[i] # m
                 /\ \A a \in Attachments : wl[a].msg # m)
    /\ [][\A c \in ClientIds :
             (typed'[c].input # typed[c].input /\ skipped'[c] = skipped[c]) =>
                 writeCh' = IF Len(writeCh) < WriteChCap
                            THEN Append(writeCh, [from |-> c, k |-> typed'[c].input])
                            ELSE writeCh]_vars

\* A client's input reached the pane after the read loop had skipped a
\* frame of each sort before it: an input frame with bad base64 and a frame
\* that does not parse or is no input.
C36_Witness ==
    \E c \in ClientIds :
        /\ \E j \in 1..Len(skipped[c]) : skipped[c][j].kind \in LiveSkipped
        /\ \E j \in 1..Len(skipped[c]) :
              /\ skipped[c][j].kind = "invalid base64"
              /\ \E i \in 1..Len(keys) :
                    keys[i].from = c /\ keys[i].k > skipped[c][j].k
        /\ c \in hub /\ cl[c].conn = "open"

\* C37: WriteInput does not wait.  The step that reads a client's input
\* frame with good base64 is taken whatever writeCh holds: with WriteChCap
\* messages queued it leaves writeCh as it was, with fewer it puts the
\* message behind them.  writeCh never holds more than WriteChCap.
C37_WriteInputNeverBlocks ==
    /\ [](Len(writeCh) <= WriteChCap)
    /\ [][\A c \in ClientIds :
             (typed'[c].input # typed[c].input /\ skipped'[c] = skipped[c]) =>
                 LET m == [from |-> c, k |-> typed'[c].input] IN
                 IF Len(writeCh) = WriteChCap
                 THEN writeCh' = writeCh
                 ELSE /\ Len(writeCh') = Len(writeCh) + 1
                      /\ SubSeq(writeCh', 1, Len(writeCh)) = writeCh
                      /\ writeCh'[Len(writeCh')] = m]_vars

\* A client's input frame was read and dropped at a full writeCh: the
\* channel holds WriteChCap messages, and the client's second message is
\* neither among them nor with a writeLoop nor at the pane, though its
\* base64 was good.
C37_Witness ==
    \E c \in ClientIds :
        LET m == [from |-> c, k |-> 2] IN
        /\ typed[c].input = 2
        /\ skipped[c] = <<>>
        /\ Len(writeCh) = WriteChCap
        /\ \A i \in 1..Len(writeCh) : writeCh[i] # m
        /\ \A i \in 1..Len(keys) : keys[i] # m
        /\ \A a \in Attachments : wl[a].msg # m
        /\ cl[c].pc = "live" /\ cl[c].conn = "open"

\* C38: Close, Open and Reattach leave the ring alone.  No step of theirs
\* changes the ring or what has been appended to it, so at every moment,
\* whatever attaches and closes have happened, Snapshot returns the last
\* bytes appended, as many as the ring retains.
C38_BridgeCallsLeaveRing ==
    /\ [][(SupConnected \/ SupMissing \/ OpenBegin \/ OpenEnd) =>
             (ring' = ring /\ stream' = stream)]_vars
    /\ [](LET W == Len(stream)
              k == Min(W, ring.size)
          IN  /\ Snapshot(ring).data = SubSeq(stream, W - k + 1, W)
              /\ ring.writePos = W)

\* After a second attach the snapshot still holds a byte the reader of the
\* first attachment captured.
C38_Witness ==
    /\ Len(attaches) >= 2
    /\ \E i \in 1..Len(Snapshot(ring).data) : by[Snapshot(ring).data[i]] = 1

\* C39: Close is safe whenever it is called.  The stop channel the
\* PTYManager holds has never been closed, a step closes no other stop
\* channel than that one, and the step forgets it, so no stop channel is
\* closed twice; every step that runs closeLocked (the supervisor's Close
\* of a missing pane, the Close that begins Reattach, the Close of
\* Session.Close) leaves no stop channel, FIFO path, FIFO handle or pty
\* handle in the PTYManager and leaves the Epoch as it was; and while the
\* PTYManager holds no stop channel, no step gives it a FIFO handle.
C39_CloseIsSafe ==
    /\ [](pty.stopCh \notin stopped)
    /\ [][stopped' # stopped =>
             /\ pty.stopCh # 0
             /\ stopped' = stopped \cup {pty.stopCh}
             /\ pty'.stopCh = 0]_vars
    /\ [][(SupMissing \/ SupConnected \/ CloseAllPTY) =>
             /\ pty'.stopCh = 0
             /\ pty'.fifoPath = ""
             /\ pty'.fifoFile = 0
             /\ pty'.ptyFile = "nil"
             /\ pty'.epoch = pty.epoch]_vars
    /\ [][pty.stopCh = 0 => pty'.fifoFile = 0]_vars

\* C40: a Subscriber's queue is closed only after the Subscriber left the
\* Hub map, so no Broadcast or BroadcastStatus finds it; no step appends a
\* frame to a closed queue; no step closes a queue that is already closed;
\* and the only step that closes a queue is one that takes its Subscriber
\* out of the map, so a Subscriber that never registered keeps its queue
\* open.
C40_NoSendAfterClose ==
    /\ [](\A c \in ClientIds : cl[c].chClosed => c \notin hub)
    /\ [][\A c \in ClientIds :
             /\ cl[c].chClosed => /\ cl'[c].chClosed
                                  /\ Len(cl'[c].sendCh) <= Len(cl[c].sendCh)
                                  /\ ~(c \in hub /\ c \notin hub')
             /\ (cl'[c].chClosed /\ ~cl[c].chClosed) => (c \in hub /\ c \notin hub')]_vars

\* The client registered, sent its status, left and had its queue closed,
\* and the reader is inside a Broadcast after that.
C40_Witness ==
    /\ cl["c1"].chClosed /\ cl["c1"].pc = "closed"
    /\ \E i \in 1..Len(recv["c1"]) : recv["c1"][i] = StatusFrame("connected", 1)
    /\ \E a \in Attachments : rd[a].pc = "inbcast"
====
